---- MODULE Spec2Model ----
(***************************************************************************)
(* Model of the KOMA streaming audio analysis server (src/main.py) and of  *)
(* the estimator wrappers it calls (src/Music_Anaylizer.py).               *)
(*                                                                         *)
(* One websocket_audio coroutine runs per connection.  A coroutine only    *)
(* yields at an await, so every action below is the code between two       *)
(* awaits of one session: accept, receive (+ the synchronous handling of   *)
(* the message up to the next await), send_json, close.                    *)
(*                                                                         *)
(* Byte strings are kept run-length encoded: a sequence of runs <<b, n>>   *)
(* (byte value b repeated n > 0 times, adjacent runs of different value),  *)
(* so that the real window size of 441000 bytes is used unscaled.          *)
(***************************************************************************)
EXTENDS Integers, Sequences, FiniteSets, TLC

(***************************************************************************)
(* Bounds of the model.                                                    *)
(***************************************************************************)
NumSessions == 2      \* concurrent connections in Spec
MaxMsgs == 3          \* client messages put in flight, over all sessions

Sessions == 1..NumSessions

(***************************************************************************)
(* Program constants, src/main.py:62-66.                                   *)
(***************************************************************************)
SAMPLE_RATE == 44100
CHANNELS == 1
SECONDS == 5
BYTES_PER_SAMPLE == 2
TARGET_SIZE == SAMPLE_RATE * CHANNELS * BYTES_PER_SAMPLE * SECONDS

(***************************************************************************)
(* Run-length encoded byte strings (bytes / bytearray values).             *)
(***************************************************************************)
RECURSIVE Norm(_)
Norm(s) ==
    IF s = <<>> THEN <<>>
    ELSE IF s[1][2] = 0 THEN Norm(Tail(s))
    ELSE LET r == Norm(Tail(s))
         IN  IF r # <<>> /\ r[1][1] = s[1][1]
             THEN <<(<<s[1][1], s[1][2] + r[1][2]>>)>> \o Tail(r)
             ELSE <<s[1]>> \o r

Run(b, n) == Norm(<<(<<b, n>>)>>)

RECURSIVE BLen(_)
BLen(s) == IF s = <<>> THEN 0 ELSE s[1][2] + BLen(Tail(s))

\* s[:k] for k >= 0
RECURSIVE BTake(_, _)
BTake(s, k) ==
    IF s = <<>> \/ k <= 0 THEN <<>>
    ELSE IF s[1][2] <= k THEN <<s[1]>> \o BTake(Tail(s), k - s[1][2])
    ELSE <<(<<s[1][1], k>>)>>

\* s[k:] for k >= 0
RECURSIVE BDrop(_, _)
BDrop(s, k) ==
    IF s = <<>> \/ k <= 0 THEN s
    ELSE IF s[1][2] <= k THEN BDrop(Tail(s), k - s[1][2])
    ELSE <<(<<s[1][1], s[1][2] - k>>)>> \o Tail(s)

\* (a faulty extend that puts the chunk in front of the bytes already held)
BExtendFront(buf, chunk) == Norm(chunk \o buf)

\* bytearray.extend: the chunk is appended after the bytes already held
BExtend(buf, chunk) == Norm(buf \o chunk)

(***************************************************************************)
(* Text frames.  The text of a frame is the sequence of the code points of *)
(* its characters, the unit str.strip() and str.lower() work on.  The      *)
(* tables below are those of the Unicode database of CPython 3.11          *)
(* (Unicode 14.0.0), in ranges of code points.                             *)
(***************************************************************************)
\* the letters A..Z and a..z, in the order of their code points 65..90 and
\* 97..122
Capitals == <<"A", "B", "C", "D", "E", "F", "G", "H", "I", "J", "K", "L", "M",
              "N", "O", "P", "Q", "R", "S", "T", "U", "V", "W", "X", "Y", "Z">>
Smalls == <<"a", "b", "c", "d", "e", "f", "g", "h", "i", "j", "k", "l", "m",
            "n", "o", "p", "q", "r", "s", "t", "u", "v", "w", "x", "y", "z">>

\* ord(c) of a letter or of the space, and the text of a string given
\* character by character
Ord(c) ==
    IF c = " " THEN 32
    ELSE IF \E i \in DOMAIN Capitals : Capitals[i] = c
    THEN 64 + CHOOSE i \in DOMAIN Capitals : Capitals[i] = c
    ELSE 96 + CHOOSE i \in DOMAIN Smalls : Smalls[i] = c
Text(cs) == [i \in DOMAIN cs |-> Ord(cs[i])]

\* c lies in one of the ranges <<first, last>> of R
InRanges(c, R) == \E r \in R : r[1] <= c /\ c <= r[2]

\* the characters str.isspace() is true for, which str.strip() removes:
\* U+0009..U+000D, U+001C..U+0020, U+0085, U+00A0, U+1680, U+2000..U+200A,
\* U+2028, U+2029, U+202F, U+205F, U+3000
WhiteSpace ==
    {
      <<9, 13>>, <<28, 32>>, <<133, 133>>, <<160, 160>>, <<5760, 5760>>, <<8192, 8202>>,
      <<8232, 8233>>, <<8239, 8239>>, <<8287, 8287>>, <<12288, 12288>>
    }

IsSpace(c) == InRanges(c, WhiteSpace)

RECURSIVE LStrip(_)
LStrip(t) == IF t # <<>> /\ IsSpace(t[1]) THEN LStrip(Tail(t)) ELSE t

RECURSIVE RStrip(_)
RStrip(t) ==
    IF t # <<>> /\ IsSpace(t[Len(t)]) THEN RStrip(SubSeq(t, 1, Len(t) - 1)) ELSE t

strip(t) == RStrip(LStrip(t))

\* c is one of first, first + step, ..., last of the run <<first, last, step, delta>>
InRun(c, r) == r[1] <= c /\ c <= r[2] /\ (c - r[1]) % r[3] = 0

\* what a table of runs makes of c: c + delta of the run c is in, c itself
\* when it is in none
Mapped(c, runs) ==
    LET hit == {r \in runs : InRun(c, r)}
    IN  IF hit = {} THEN c ELSE c + (CHOOSE r \in hit : TRUE)[4]

\* the simple lower-case mapping: every character str.lower() turns into
\* one other character, as runs <<first, last, step, delta>>
LowerRuns ==
    {
      <<65, 90, 1, 32>>, <<192, 214, 1, 32>>, <<216, 222, 1, 32>>, <<256, 302, 2, 1>>,
      <<306, 310, 2, 1>>, <<313, 327, 2, 1>>, <<330, 374, 2, 1>>, <<376, 376, 1, -121>>,
      <<377, 381, 2, 1>>, <<385, 385, 1, 210>>, <<386, 388, 2, 1>>, <<390, 390, 1, 206>>,
      <<391, 391, 1, 1>>, <<393, 394, 1, 205>>, <<395, 395, 1, 1>>, <<398, 398, 1, 79>>,
      <<399, 399, 1, 202>>, <<400, 400, 1, 203>>, <<401, 401, 1, 1>>, <<403, 403, 1, 205>>,
      <<404, 404, 1, 207>>, <<406, 406, 1, 211>>, <<407, 407, 1, 209>>, <<408, 408, 1, 1>>,
      <<412, 412, 1, 211>>, <<413, 413, 1, 213>>, <<415, 415, 1, 214>>, <<416, 420, 2, 1>>,
      <<422, 422, 1, 218>>, <<423, 423, 1, 1>>, <<425, 425, 1, 218>>, <<428, 428, 1, 1>>,
      <<430, 430, 1, 218>>, <<431, 431, 1, 1>>, <<433, 434, 1, 217>>, <<435, 437, 2, 1>>,
      <<439, 439, 1, 219>>, <<440, 440, 1, 1>>, <<444, 444, 1, 1>>, <<452, 452, 1, 2>>,
      <<453, 453, 1, 1>>, <<455, 455, 1, 2>>, <<456, 456, 1, 1>>, <<458, 458, 1, 2>>,
      <<459, 475, 2, 1>>, <<478, 494, 2, 1>>, <<497, 497, 1, 2>>, <<498, 500, 2, 1>>,
      <<502, 502, 1, -97>>, <<503, 503, 1, -56>>, <<504, 542, 2, 1>>, <<544, 544, 1, -130>>,
      <<546, 562, 2, 1>>, <<570, 570, 1, 10795>>, <<571, 571, 1, 1>>, <<573, 573, 1, -163>>,
      <<574, 574, 1, 10792>>, <<577, 577, 1, 1>>, <<579, 579, 1, -195>>, <<580, 580, 1, 69>>,
      <<581, 581, 1, 71>>, <<582, 590, 2, 1>>, <<880, 882, 2, 1>>, <<886, 886, 1, 1>>,
      <<895, 895, 1, 116>>, <<902, 902, 1, 38>>, <<904, 906, 1, 37>>, <<908, 908, 1, 64>>,
      <<910, 911, 1, 63>>, <<913, 929, 1, 32>>, <<931, 939, 1, 32>>, <<975, 975, 1, 8>>,
      <<984, 1006, 2, 1>>, <<1012, 1012, 1, -60>>, <<1015, 1015, 1, 1>>, <<1017, 1017, 1, -7>>,
      <<1018, 1018, 1, 1>>, <<1021, 1023, 1, -130>>, <<1024, 1039, 1, 80>>,
      <<1040, 1071, 1, 32>>, <<1120, 1152, 2, 1>>, <<1162, 1214, 2, 1>>, <<1216, 1216, 1, 15>>,
      <<1217, 1229, 2, 1>>, <<1232, 1326, 2, 1>>, <<1329, 1366, 1, 48>>,
      <<4256, 4293, 1, 7264>>, <<4295, 4295, 1, 7264>>, <<4301, 4301, 1, 7264>>,
      <<5024, 5103, 1, 38864>>, <<5104, 5109, 1, 8>>, <<7312, 7354, 1, -3008>>,
      <<7357, 7359, 1, -3008>>, <<7680, 7828, 2, 1>>, <<7838, 7838, 1, -7615>>,
      <<7840, 7934, 2, 1>>, <<7944, 7951, 1, -8>>, <<7960, 7965, 1, -8>>, <<7976, 7983, 1, -8>>,
      <<7992, 7999, 1, -8>>, <<8008, 8013, 1, -8>>, <<8025, 8031, 2, -8>>,
      <<8040, 8047, 1, -8>>, <<8072, 8079, 1, -8>>, <<8088, 8095, 1, -8>>,
      <<8104, 8111, 1, -8>>, <<8120, 8121, 1, -8>>, <<8122, 8123, 1, -74>>,
      <<8124, 8124, 1, -9>>, <<8136, 8139, 1, -86>>, <<8140, 8140, 1, -9>>,
      <<8152, 8153, 1, -8>>, <<8154, 8155, 1, -100>>, <<8168, 8169, 1, -8>>,
      <<8170, 8171, 1, -112>>, <<8172, 8172, 1, -7>>, <<8184, 8185, 1, -128>>,
      <<8186, 8187, 1, -126>>, <<8188, 8188, 1, -9>>, <<8486, 8486, 1, -7517>>,
      <<8490, 8490, 1, -8383>>, <<8491, 8491, 1, -8262>>, <<8498, 8498, 1, 28>>,
      <<8544, 8559, 1, 16>>, <<8579, 8579, 1, 1>>, <<9398, 9423, 1, 26>>,
      <<11264, 11311, 1, 48>>, <<11360, 11360, 1, 1>>, <<11362, 11362, 1, -10743>>,
      <<11363, 11363, 1, -3814>>, <<11364, 11364, 1, -10727>>, <<11367, 11371, 2, 1>>,
      <<11373, 11373, 1, -10780>>, <<11374, 11374, 1, -10749>>, <<11375, 11375, 1, -10783>>,
      <<11376, 11376, 1, -10782>>, <<11378, 11378, 1, 1>>, <<11381, 11381, 1, 1>>,
      <<11390, 11391, 1, -10815>>, <<11392, 11490, 2, 1>>, <<11499, 11501, 2, 1>>,
      <<11506, 11506, 1, 1>>, <<42560, 42604, 2, 1>>, <<42624, 42650, 2, 1>>,
      <<42786, 42798, 2, 1>>, <<42802, 42862, 2, 1>>, <<42873, 42875, 2, 1>>,
      <<42877, 42877, 1, -35332>>, <<42878, 42886, 2, 1>>, <<42891, 42891, 1, 1>>,
      <<42893, 42893, 1, -42280>>, <<42896, 42898, 2, 1>>, <<42902, 42920, 2, 1>>,
      <<42922, 42922, 1, -42308>>, <<42923, 42923, 1, -42319>>, <<42924, 42924, 1, -42315>>,
      <<42925, 42925, 1, -42305>>, <<42926, 42926, 1, -42308>>, <<42928, 42928, 1, -42258>>,
      <<42929, 42929, 1, -42282>>, <<42930, 42930, 1, -42261>>, <<42931, 42931, 1, 928>>,
      <<42932, 42946, 2, 1>>, <<42948, 42948, 1, -48>>, <<42949, 42949, 1, -42307>>,
      <<42950, 42950, 1, -35384>>, <<42951, 42953, 2, 1>>, <<42960, 42960, 1, 1>>,
      <<42966, 42968, 2, 1>>, <<42997, 42997, 1, 1>>, <<65313, 65338, 1, 32>>,
      <<66560, 66599, 1, 40>>, <<66736, 66771, 1, 40>>, <<66928, 66928, 1, 39>>,
      <<66929, 66938, 1, 39>>, <<66940, 66954, 1, 39>>, <<66956, 66962, 1, 39>>,
      <<66964, 66965, 1, 39>>, <<68736, 68786, 1, 64>>, <<71840, 71871, 1, 32>>,
      <<93760, 93791, 1, 32>>, <<125184, 125217, 1, 34>>
    }

\* the characters with the property Cased (lower case, upper case or title
\* case) and those with the property Case_Ignorable
Cased ==
    {
      <<65, 90>>, <<97, 122>>, <<170, 170>>, <<181, 181>>, <<186, 186>>, <<192, 214>>,
      <<216, 246>>, <<248, 442>>, <<444, 447>>, <<452, 659>>, <<661, 696>>, <<704, 705>>,
      <<736, 740>>, <<837, 837>>, <<880, 883>>, <<886, 887>>, <<890, 893>>, <<895, 895>>,
      <<902, 902>>, <<904, 906>>, <<908, 908>>, <<910, 929>>, <<931, 1013>>, <<1015, 1153>>,
      <<1162, 1327>>, <<1329, 1366>>, <<1376, 1416>>, <<4256, 4293>>, <<4295, 4295>>,
      <<4301, 4301>>, <<4304, 4346>>, <<4349, 4351>>, <<5024, 5109>>, <<5112, 5117>>,
      <<7296, 7304>>, <<7312, 7354>>, <<7357, 7359>>, <<7424, 7615>>, <<7680, 7957>>,
      <<7960, 7965>>, <<7968, 8005>>, <<8008, 8013>>, <<8016, 8023>>, <<8025, 8025>>,
      <<8027, 8027>>, <<8029, 8029>>, <<8031, 8061>>, <<8064, 8116>>, <<8118, 8124>>,
      <<8126, 8126>>, <<8130, 8132>>, <<8134, 8140>>, <<8144, 8147>>, <<8150, 8155>>,
      <<8160, 8172>>, <<8178, 8180>>, <<8182, 8188>>, <<8305, 8305>>, <<8319, 8319>>,
      <<8336, 8348>>, <<8450, 8450>>, <<8455, 8455>>, <<8458, 8467>>, <<8469, 8469>>,
      <<8473, 8477>>, <<8484, 8484>>, <<8486, 8486>>, <<8488, 8488>>, <<8490, 8493>>,
      <<8495, 8500>>, <<8505, 8505>>, <<8508, 8511>>, <<8517, 8521>>, <<8526, 8526>>,
      <<8544, 8575>>, <<8579, 8580>>, <<9398, 9449>>, <<11264, 11492>>, <<11499, 11502>>,
      <<11506, 11507>>, <<11520, 11557>>, <<11559, 11559>>, <<11565, 11565>>, <<42560, 42605>>,
      <<42624, 42653>>, <<42786, 42887>>, <<42891, 42894>>, <<42896, 42954>>, <<42960, 42961>>,
      <<42963, 42963>>, <<42965, 42969>>, <<42997, 42998>>, <<43000, 43002>>, <<43824, 43866>>,
      <<43868, 43880>>, <<43888, 43967>>, <<64256, 64262>>, <<64275, 64279>>, <<65313, 65338>>,
      <<65345, 65370>>, <<66560, 66639>>, <<66736, 66771>>, <<66776, 66811>>, <<66928, 66938>>,
      <<66940, 66954>>, <<66956, 66962>>, <<66964, 66965>>, <<66967, 66977>>, <<66979, 66993>>,
      <<66995, 67001>>, <<67003, 67004>>, <<67456, 67456>>, <<67459, 67461>>, <<67463, 67504>>,
      <<67506, 67514>>, <<68736, 68786>>, <<68800, 68850>>, <<71840, 71903>>, <<93760, 93823>>,
      <<119808, 119892>>, <<119894, 119964>>, <<119966, 119967>>, <<119970, 119970>>,
      <<119973, 119974>>, <<119977, 119980>>, <<119982, 119993>>, <<119995, 119995>>,
      <<119997, 120003>>, <<120005, 120069>>, <<120071, 120074>>, <<120077, 120084>>,
      <<120086, 120092>>, <<120094, 120121>>, <<120123, 120126>>, <<120128, 120132>>,
      <<120134, 120134>>, <<120138, 120144>>, <<120146, 120485>>, <<120488, 120512>>,
      <<120514, 120538>>, <<120540, 120570>>, <<120572, 120596>>, <<120598, 120628>>,
      <<120630, 120654>>, <<120656, 120686>>, <<120688, 120712>>, <<120714, 120744>>,
      <<120746, 120770>>, <<120772, 120779>>, <<122624, 122633>>, <<122635, 122654>>,
      <<125184, 125251>>, <<127280, 127305>>, <<127312, 127337>>, <<127344, 127369>>
    }

CaseIgnorable ==
    {
      <<39, 39>>, <<46, 46>>, <<58, 58>>, <<94, 94>>, <<96, 96>>, <<168, 168>>, <<173, 173>>,
      <<175, 175>>, <<180, 180>>, <<183, 184>>, <<688, 879>>, <<884, 885>>, <<890, 890>>,
      <<900, 901>>, <<903, 903>>, <<1155, 1161>>, <<1369, 1369>>, <<1375, 1375>>,
      <<1425, 1469>>, <<1471, 1471>>, <<1473, 1474>>, <<1476, 1477>>, <<1479, 1479>>,
      <<1524, 1524>>, <<1536, 1541>>, <<1552, 1562>>, <<1564, 1564>>, <<1600, 1600>>,
      <<1611, 1631>>, <<1648, 1648>>, <<1750, 1757>>, <<1759, 1768>>, <<1770, 1773>>,
      <<1807, 1807>>, <<1809, 1809>>, <<1840, 1866>>, <<1958, 1968>>, <<2027, 2037>>,
      <<2042, 2042>>, <<2045, 2045>>, <<2070, 2093>>, <<2137, 2139>>, <<2184, 2184>>,
      <<2192, 2193>>, <<2200, 2207>>, <<2249, 2306>>, <<2362, 2362>>, <<2364, 2364>>,
      <<2369, 2376>>, <<2381, 2381>>, <<2385, 2391>>, <<2402, 2403>>, <<2417, 2417>>,
      <<2433, 2433>>, <<2492, 2492>>, <<2497, 2500>>, <<2509, 2509>>, <<2530, 2531>>,
      <<2558, 2558>>, <<2561, 2562>>, <<2620, 2620>>, <<2625, 2626>>, <<2631, 2632>>,
      <<2635, 2637>>, <<2641, 2641>>, <<2672, 2673>>, <<2677, 2677>>, <<2689, 2690>>,
      <<2748, 2748>>, <<2753, 2757>>, <<2759, 2760>>, <<2765, 2765>>, <<2786, 2787>>,
      <<2810, 2815>>, <<2817, 2817>>, <<2876, 2876>>, <<2879, 2879>>, <<2881, 2884>>,
      <<2893, 2893>>, <<2901, 2902>>, <<2914, 2915>>, <<2946, 2946>>, <<3008, 3008>>,
      <<3021, 3021>>, <<3072, 3072>>, <<3076, 3076>>, <<3132, 3132>>, <<3134, 3136>>,
      <<3142, 3144>>, <<3146, 3149>>, <<3157, 3158>>, <<3170, 3171>>, <<3201, 3201>>,
      <<3260, 3260>>, <<3263, 3263>>, <<3270, 3270>>, <<3276, 3277>>, <<3298, 3299>>,
      <<3328, 3329>>, <<3387, 3388>>, <<3393, 3396>>, <<3405, 3405>>, <<3426, 3427>>,
      <<3457, 3457>>, <<3530, 3530>>, <<3538, 3540>>, <<3542, 3542>>, <<3633, 3633>>,
      <<3636, 3642>>, <<3654, 3662>>, <<3761, 3761>>, <<3764, 3772>>, <<3782, 3782>>,
      <<3784, 3789>>, <<3864, 3865>>, <<3893, 3893>>, <<3895, 3895>>, <<3897, 3897>>,
      <<3953, 3966>>, <<3968, 3972>>, <<3974, 3975>>, <<3981, 3991>>, <<3993, 4028>>,
      <<4038, 4038>>, <<4141, 4144>>, <<4146, 4151>>, <<4153, 4154>>, <<4157, 4158>>,
      <<4184, 4185>>, <<4190, 4192>>, <<4209, 4212>>, <<4226, 4226>>, <<4229, 4230>>,
      <<4237, 4237>>, <<4253, 4253>>, <<4348, 4348>>, <<4957, 4959>>, <<5906, 5908>>,
      <<5938, 5939>>, <<5970, 5971>>, <<6002, 6003>>, <<6068, 6069>>, <<6071, 6077>>,
      <<6086, 6086>>, <<6089, 6099>>, <<6103, 6103>>, <<6109, 6109>>, <<6155, 6159>>,
      <<6211, 6211>>, <<6277, 6278>>, <<6313, 6313>>, <<6432, 6434>>, <<6439, 6440>>,
      <<6450, 6450>>, <<6457, 6459>>, <<6679, 6680>>, <<6683, 6683>>, <<6742, 6742>>,
      <<6744, 6750>>, <<6752, 6752>>, <<6754, 6754>>, <<6757, 6764>>, <<6771, 6780>>,
      <<6783, 6783>>, <<6823, 6823>>, <<6832, 6862>>, <<6912, 6915>>, <<6964, 6964>>,
      <<6966, 6970>>, <<6972, 6972>>, <<6978, 6978>>, <<7019, 7027>>, <<7040, 7041>>,
      <<7074, 7077>>, <<7080, 7081>>, <<7083, 7085>>, <<7142, 7142>>, <<7144, 7145>>,
      <<7149, 7149>>, <<7151, 7153>>, <<7212, 7219>>, <<7222, 7223>>, <<7288, 7293>>,
      <<7376, 7378>>, <<7380, 7392>>, <<7394, 7400>>, <<7405, 7405>>, <<7412, 7412>>,
      <<7416, 7417>>, <<7468, 7530>>, <<7544, 7544>>, <<7579, 7679>>, <<8125, 8125>>,
      <<8127, 8129>>, <<8141, 8143>>, <<8157, 8159>>, <<8173, 8175>>, <<8189, 8190>>,
      <<8203, 8207>>, <<8216, 8217>>, <<8228, 8228>>, <<8231, 8231>>, <<8234, 8238>>,
      <<8288, 8292>>, <<8294, 8303>>, <<8305, 8305>>, <<8319, 8319>>, <<8336, 8348>>,
      <<8400, 8432>>, <<11388, 11389>>, <<11503, 11505>>, <<11631, 11631>>, <<11647, 11647>>,
      <<11744, 11775>>, <<11823, 11823>>, <<12293, 12293>>, <<12330, 12333>>, <<12337, 12341>>,
      <<12347, 12347>>, <<12441, 12446>>, <<12540, 12542>>, <<40981, 40981>>, <<42232, 42237>>,
      <<42508, 42508>>, <<42607, 42610>>, <<42612, 42621>>, <<42623, 42623>>, <<42652, 42655>>,
      <<42736, 42737>>, <<42752, 42785>>, <<42864, 42864>>, <<42888, 42890>>, <<42994, 42996>>,
      <<43000, 43001>>, <<43010, 43010>>, <<43014, 43014>>, <<43019, 43019>>, <<43045, 43046>>,
      <<43052, 43052>>, <<43204, 43205>>, <<43232, 43249>>, <<43263, 43263>>, <<43302, 43309>>,
      <<43335, 43345>>, <<43392, 43394>>, <<43443, 43443>>, <<43446, 43449>>, <<43452, 43453>>,
      <<43471, 43471>>, <<43493, 43494>>, <<43561, 43566>>, <<43569, 43570>>, <<43573, 43574>>,
      <<43587, 43587>>, <<43596, 43596>>, <<43632, 43632>>, <<43644, 43644>>, <<43696, 43696>>,
      <<43698, 43700>>, <<43703, 43704>>, <<43710, 43711>>, <<43713, 43713>>, <<43741, 43741>>,
      <<43756, 43757>>, <<43763, 43764>>, <<43766, 43766>>, <<43867, 43871>>, <<43881, 43883>>,
      <<44005, 44005>>, <<44008, 44008>>, <<44013, 44013>>, <<64286, 64286>>, <<64434, 64450>>,
      <<65024, 65039>>, <<65043, 65043>>, <<65056, 65071>>, <<65106, 65106>>, <<65109, 65109>>,
      <<65279, 65279>>, <<65287, 65287>>, <<65294, 65294>>, <<65306, 65306>>, <<65342, 65342>>,
      <<65344, 65344>>, <<65392, 65392>>, <<65438, 65439>>, <<65507, 65507>>, <<65529, 65531>>,
      <<66045, 66045>>, <<66272, 66272>>, <<66422, 66426>>, <<67456, 67461>>, <<67463, 67504>>,
      <<67506, 67514>>, <<68097, 68099>>, <<68101, 68102>>, <<68108, 68111>>, <<68152, 68154>>,
      <<68159, 68159>>, <<68325, 68326>>, <<68900, 68903>>, <<69291, 69292>>, <<69446, 69456>>,
      <<69506, 69509>>, <<69633, 69633>>, <<69688, 69702>>, <<69744, 69744>>, <<69747, 69748>>,
      <<69759, 69761>>, <<69811, 69814>>, <<69817, 69818>>, <<69821, 69821>>, <<69826, 69826>>,
      <<69837, 69837>>, <<69888, 69890>>, <<69927, 69931>>, <<69933, 69940>>, <<70003, 70003>>,
      <<70016, 70017>>, <<70070, 70078>>, <<70089, 70092>>, <<70095, 70095>>, <<70191, 70193>>,
      <<70196, 70196>>, <<70198, 70199>>, <<70206, 70206>>, <<70367, 70367>>, <<70371, 70378>>,
      <<70400, 70401>>, <<70459, 70460>>, <<70464, 70464>>, <<70502, 70508>>, <<70512, 70516>>,
      <<70712, 70719>>, <<70722, 70724>>, <<70726, 70726>>, <<70750, 70750>>, <<70835, 70840>>,
      <<70842, 70842>>, <<70847, 70848>>, <<70850, 70851>>, <<71090, 71093>>, <<71100, 71101>>,
      <<71103, 71104>>, <<71132, 71133>>, <<71219, 71226>>, <<71229, 71229>>, <<71231, 71232>>,
      <<71339, 71339>>, <<71341, 71341>>, <<71344, 71349>>, <<71351, 71351>>, <<71453, 71455>>,
      <<71458, 71461>>, <<71463, 71467>>, <<71727, 71735>>, <<71737, 71738>>, <<71995, 71996>>,
      <<71998, 71998>>, <<72003, 72003>>, <<72148, 72151>>, <<72154, 72155>>, <<72160, 72160>>,
      <<72193, 72202>>, <<72243, 72248>>, <<72251, 72254>>, <<72263, 72263>>, <<72273, 72278>>,
      <<72281, 72283>>, <<72330, 72342>>, <<72344, 72345>>, <<72752, 72758>>, <<72760, 72765>>,
      <<72767, 72767>>, <<72850, 72871>>, <<72874, 72880>>, <<72882, 72883>>, <<72885, 72886>>,
      <<73009, 73014>>, <<73018, 73018>>, <<73020, 73021>>, <<73023, 73029>>, <<73031, 73031>>,
      <<73104, 73105>>, <<73109, 73109>>, <<73111, 73111>>, <<73459, 73460>>, <<78896, 78904>>,
      <<92912, 92916>>, <<92976, 92982>>, <<92992, 92995>>, <<94031, 94031>>, <<94095, 94111>>,
      <<94176, 94177>>, <<94179, 94180>>, <<110576, 110579>>, <<110581, 110587>>,
      <<110589, 110590>>, <<113821, 113822>>, <<113824, 113827>>, <<118528, 118573>>,
      <<118576, 118598>>, <<119143, 119145>>, <<119155, 119170>>, <<119173, 119179>>,
      <<119210, 119213>>, <<119362, 119364>>, <<121344, 121398>>, <<121403, 121452>>,
      <<121461, 121461>>, <<121476, 121476>>, <<121499, 121503>>, <<121505, 121519>>,
      <<122880, 122886>>, <<122888, 122904>>, <<122907, 122913>>, <<122915, 122916>>,
      <<122918, 122922>>, <<123184, 123197>>, <<123566, 123566>>, <<123628, 123631>>,
      <<125136, 125142>>, <<125252, 125259>>, <<127995, 127999>>, <<917505, 917505>>,
      <<917536, 917631>>, <<917760, 917999>>
    }

IsCased(c) == InRanges(c, Cased)
IsCaseIgnorable(c) == InRanges(c, CaseIgnorable)

\* str.lower() of the one character c: U+0130 becomes the two characters
\* U+0069 U+0307, every other character one character
LowerChar(c) == IF c = 304 THEN <<105, 775>> ELSE <<Mapped(c, LowerRuns)>>

\* the capital sigma t[i] is final: the nearest character before it that is
\* not case-ignorable is cased, and the nearest such character after it, if
\* there is one, is not cased
FinalSigma(t, i) ==
    LET before == {j \in 1..(i - 1) : ~IsCaseIgnorable(t[j])}
        after  == {j \in (i + 1)..Len(t) : ~IsCaseIgnorable(t[j])}
    IN  /\ before # {}
        /\ IsCased(t[CHOOSE j \in before : \A k \in before : k <= j])
        /\ after # {} => ~IsCased(t[CHOOSE j \in after : \A k \in after : j <= k])

\* what str.lower() makes of the character t[i] of t: U+03A3 becomes U+03C2
\* where it is final and U+03C3 elsewhere
LowerAt(t, i) ==
    IF t[i] = 931 THEN (IF FinalSigma(t, i) THEN <<962>> ELSE <<963>>)
    ELSE LowerChar(t[i])

RECURSIVE Concat(_)
Concat(parts) == IF parts = <<>> THEN <<>> ELSE Head(parts) \o Concat(Tail(parts))

\* str.lower(): an ASCII text has its letters A..Z moved to a..z, any other
\* text is lowered character by character
lower(t) ==
    IF \A i \in 1..Len(t) : t[i] < 128
    THEN [i \in 1..Len(t) |-> IF t[i] \in 65..90 THEN t[i] + 32 ELSE t[i]]
    ELSE Concat([i \in 1..Len(t) |-> LowerAt(t, i)])

STOP_TEXT == Text(<<"s", "t", "o", "p">>)

(***************************************************************************)
(* Python values that matter for formatting: a str (sequence of            *)
(* characters) or a float, a whole number of units of 1/FPScale.           *)
(***************************************************************************)
PyStr(chars) == [t |-> "str", v |-> chars]
PyFloat(x) == [t |-> "float", v |-> x]

DigitChar(d) == <<"0", "1", "2", "3", "4", "5", "6", "7", "8", "9">>[d + 1]

RECURSIVE Digits(_)
Digits(n) == IF n < 10 THEN <<DigitChar(n)>> ELSE Digits(n \div 10) \o <<DigitChar(n % 10)>>

RECURSIVE Pow10(_)
Pow10(d) == IF d = 0 THEN 1 ELSE 10 * Pow10(d - 1)

\* floats are binary fixed point: PyFloat(x) is the double x / 2^10, exactly
FPScale == 2 ^ 10

RECURSIVE PadZero(_, _)
PadZero(ds, d) == IF Len(ds) >= d THEN ds ELSE PadZero(<<"0">> \o ds, d)

\* "{:.<d>f}".format(x) for a float x >= 0 (d <= 4): the exact value is
\* rounded to d decimals, an exact tie going to the even digit; then the
\* integer part and, if d > 0, "." and d digits
FormatFixed(x, d) ==
    LET num == x * Pow10(d)
        q0  == num \div FPScale
        r   == num % FPScale
        q   == IF 2 * r > FPScale \/ (2 * r = FPScale /\ q0 % 2 = 1) THEN q0 + 1 ELSE q0
    IN  IF d = 0 THEN Digits(q)
        ELSE Digits(q \div Pow10(d)) \o <<".">> \o PadZero(Digits(q % Pow10(d)), d)

\* format(value, ".<d>f"): defined for a float, ValueError for a str
FormatRaises(value) == value.t # "float"

(***************************************************************************)
(* decode_pcm, src/main.py:23-42.  The frame is the run-length encoded     *)
(* sequence of int16 values; a sample is that value divided by 32768.      *)
(***************************************************************************)
\* (a faulty decoder that reads the samples as unsigned 16-bit integers)
UInt16(lo, hi) == lo + 256 * hi

Int16(lo, hi) == LET u == lo + 256 * hi IN IF u >= 32768 THEN u - 65536 ELSE u

\* np.frombuffer(pcm_bytes, dtype=np.int16) on an even number of bytes
RECURSIVE FromBuffer(_)
FromBuffer(s) ==
    IF s = <<>> THEN <<>>
    ELSE IF s[1][2] >= 2
         THEN <<(<<Int16(s[1][1], s[1][1]), s[1][2] \div 2>>)>>
                  \o FromBuffer(BDrop(s, 2 * (s[1][2] \div 2)))
         ELSE <<(<<Int16(s[1][1], s[2][1]), 1>>)>> \o FromBuffer(BDrop(s, 2))

Raised == [raised |-> TRUE]
Returned(v) == [raised |-> FALSE, value |-> v]

\* (a faulty decoder that drops an odd last byte and incomplete frames
\* instead of raising)
decode_pcm_lenient(pcm_bytes, sample_rate, channels) ==
    IF BLen(pcm_bytes) = 0 THEN Raised
    ELSE LET whole == BLen(pcm_bytes) - (BLen(pcm_bytes) % (BYTES_PER_SAMPLE * channels))
             audio == Norm(FromBuffer(BTake(pcm_bytes, whole)))
         IN  Returned([audio |-> audio, size |-> BLen(audio),
                       divisor |-> 32768, sr |-> sample_rate])

decode_pcm(pcm_bytes, sample_rate, channels) ==
    IF BLen(pcm_bytes) = 0 THEN Raised                         \* line 25-26
    ELSE IF BLen(pcm_bytes) % BYTES_PER_SAMPLE # 0 THEN Raised \* line 29, 32-33
    ELSE LET audio == Norm(FromBuffer(pcm_bytes))
         IN  IF channels > 1 /\ BLen(audio) % channels # 0 THEN Raised  \* line 35
             ELSE Returned([audio |-> audio, size |-> BLen(audio),
                            divisor |-> 32768, sr |-> sample_rate])

(***************************************************************************)
(* The estimators are external libraries (librosa, essentia): what they    *)
(* return for a frame is an input of the model.  find_bpm and find_keysig  *)
(* (src/Music_Anaylizer.py) format what the library returned.              *)
(***************************************************************************)
\* find_bpm, src/Music_Anaylizer.py:14-19; tempo is what detect_BPM did
find_bpm(tempo) ==
    IF tempo.raised THEN Raised
    ELSE IF Len(tempo.value) = 0 THEN Raised
    ELSE Returned(PyStr(FormatFixed(tempo.value[1], 3)))

\* (a faulty wrapper that hands the strength on as a number)
find_keysig_numeric(key_sig) ==
    IF key_sig.raised THEN Raised
    ELSE Returned(<<key_sig.value[1], key_sig.value[2], PyFloat(key_sig.value[3] * 100)>>)

\* find_keysig, src/Music_Anaylizer.py:21-28; key_sig is what
\* detect_keySignature did
find_keysig(key_sig) ==
    IF key_sig.raised THEN Raised
    ELSE LET key      == key_sig.value[1]
             scale    == key_sig.value[2]
             strength == key_sig.value[3] * 100
         IN  Returned(<<key, scale, PyStr(FormatFixed(strength, 2) \o <<"%">>)>>)

\* f"{strength:.1f}%", src/main.py:92
FormatStrength(strength) ==
    IF FormatRaises(strength) THEN Raised
    ELSE Returned(PyStr(FormatFixed(strength.v, 1) \o <<"%">>))

(***************************************************************************)
(* JSON messages of the streaming endpoint.                                *)
(***************************************************************************)
DetectedMsg(bpm, key_str, strength) ==
    [bpm |-> bpm, key |-> key_str, strength |-> strength, status |-> "Detected"]
ErrorMsg == [bpm |-> "Unknown", key |-> "Unknown", status |-> "Error"]
StoppedMsg == [status |-> "Stopped"]

(***************************************************************************)
(* The synchronous part of the analysis of one window, src/main.py:77-102, *)
(* up to the await it reaches: send_json of a Detected message (line 89)   *)
(* or, through the except clause of line 96, of the Error message.         *)
(***************************************************************************)
NoMsg == [status |-> "None"]
NoCall == [state |-> "none"]

\* (a faulty handler without the inner try: a failed analysis ends the loop)
ToClose == [next |-> "close", payload |-> NoMsg]

\* (a faulty handler whose except clause sends nothing and carries on)
ToSkip == [next |-> "receive", payload |-> NoMsg]

ToSendError == [next |-> "send_error", payload |-> ErrorMsg]

Analyze(window, oracle) ==
    LET d == decode_pcm(window, SAMPLE_RATE, CHANNELS)
    IN  IF d.raised THEN ToSendError
        ELSE IF d.value.size = 0 THEN ToSendError
        ELSE LET b == find_bpm(oracle.tempo)
             IN  IF b.raised THEN ToSendError
                 ELSE LET k == find_keysig(oracle.key)
                      IN  IF k.raised THEN ToSendError
                          ELSE LET f == FormatStrength(k.value[3])
                               IN  IF f.raised THEN ToSendError
                                   ELSE [next |-> "send_detected",
                                         payload |-> DetectedMsg(b.value,
                                                       k.value[1] \o k.value[2], f.value.v)]

\* (a faulty window that is the whole buffer, without the slice)
WindowWhole(buf) == buf

\* audio_buffer[:TARGET_SIZE], src/main.py:78
Window(buf) == BTake(buf, TARGET_SIZE)

\* (a faulty test that lets a buffer of exactly the window size wait)
WindowReadyStrict(buf) == BLen(buf) > TARGET_SIZE

\* len(audio_buffer) >= TARGET_SIZE, src/main.py:76
WindowReady(buf) == BLen(buf) >= TARGET_SIZE

\* (a faulty command test that takes every text frame for a stop)
IsStopAnyText(msg) == "text" \in DOMAIN msg

\* "text" in msg and msg["text"].strip().lower() == "stop", src/main.py:108
IsStop(msg) == "text" \in DOMAIN msg /\ lower(strip(msg.text)) = STOP_TEXT

(***************************************************************************)
(* Messages the transport hands to websocket.receive() under uvicorn: a    *)
(* binary frame carries only the key "bytes", a text frame only the key    *)
(* "text", and a disconnect carries neither.                               *)
(***************************************************************************)
BytesMsg(chunk) == [type |-> "websocket.receive", bytes |-> chunk]
TextMsg(text) == [type |-> "websocket.receive", text |-> text]
DisconnectMsg == [type |-> "websocket.disconnect", code |-> 1001]

IsDisconnect(msg) == msg.type = "websocket.disconnect"

\* chunk lengths a client of Spec may send: half a window (two of them make
\* exactly one window) and one byte more than a window
ChunkLens == {TARGET_SIZE \div 2, TARGET_SIZE + 1}

\* text frames a client of Spec may send
Texts == { Text(<<" ", "S", "t", "o", "p", " ">>), Text(<<"g", "o">>) }

\* what the estimators may do on a window: detect_BPM raises, or returns a
\* one-element tempo array and detect_keySignature raises or returns
NotCalled == [raised |-> TRUE, called |-> FALSE]
TempoReturned == Returned(<<123070>>)
KeyReturned == Returned(<<(<<"C">>), <<"m", "a", "j", "o", "r">>, 845>>)
Oracles == { [tempo |-> Raised, key |-> NotCalled],
             [tempo |-> TempoReturned, key |-> Raised],
             [tempo |-> TempoReturned, key |-> KeyReturned] }

VARIABLES
    pc,            \* per session: the await the coroutine is suspended at
    audio_buffer,  \* per session: the bytearray of line 60
    pending,       \* per session: the JSON message the suspended send_json carries
    inbox,         \* per session: client messages in flight to receive()
    client_state,  \* per session: "CONNECTED", or "DISCONNECTED" once receive()
                   \*   has returned the disconnect message
    sent,          \* per session: messages send_json has delivered
    closes,        \* per session: the calls of websocket.close: code, and did it raise
    escaped,       \* per session: an exception left websocket_audio
    received,      \* history: messages receive() has returned
    windows,       \* history: byte strings handed to decode_pcm
    oracles,       \* history: what the estimators did on each window
    accum,         \* history: bytes received since the buffer was last empty
    stamped,       \* number of client messages created so far
    decode_call,   \* one call of decode_pcm: its arguments and what it did
    request        \* one request to the one-shot endpoint and its response

stream == <<pc, audio_buffer, pending, inbox, client_state, sent, closes, escaped,
            received, windows, oracles, accum, stamped>>

oneshot == <<decode_call, request>>

vars == <<stream, oneshot>>

hist == <<received, windows, oracles, accum>>

InitStream(boxes) ==
    /\ pc = [s \in Sessions |-> "accept"]
    /\ audio_buffer = [s \in Sessions |-> <<>>]
    /\ pending = [s \in Sessions |-> NoMsg]
    /\ inbox = boxes
    /\ client_state = [s \in Sessions |-> "CONNECTED"]
    /\ sent = [s \in Sessions |-> <<>>]
    /\ closes = [s \in Sessions |-> <<>>]
    /\ escaped = [s \in Sessions |-> FALSE]
    /\ received = [s \in Sessions |-> <<>>]
    /\ windows = [s \in Sessions |-> <<>>]
    /\ oracles = [s \in Sessions |-> <<>>]
    /\ accum = [s \in Sessions |-> <<>>]
    /\ stamped = 0

InitWith(boxes) ==
    /\ InitStream(boxes)
    /\ decode_call = NoCall
    /\ request = NoCall

Init == InitWith([s \in Sessions |-> <<>>])

\* the peer has gone away: its disconnect is in flight or has been received
PeerGone(s) ==
    \/ client_state[s] = "DISCONNECTED"
    \/ \E i \in DOMAIN inbox[s] : IsDisconnect(inbox[s][i])

(***************************************************************************)
(* The client of session s puts its next message in flight, once the one   *)
(* before has been received (what the handler does depends on the order of *)
(* the messages of its session only).  All bytes of a chunk have the same  *)
(* value, made of the session and of the ordinal of the message in the     *)
(* session, so that any two chunks differ.                                 *)
(***************************************************************************)
ByteOf(s, k) == (16 * s + k) % 256

ClientMsgs(s) ==
    {BytesMsg(Run(ByteOf(s, Len(received[s]) + 1), n)) : n \in ChunkLens}
        \cup {TextMsg(t) : t \in Texts} \cup {DisconnectMsg}

ClientSend(s) ==
    /\ stamped < MaxMsgs
    /\ pc[s] \notin {"accept", "done"}
    /\ ~PeerGone(s)
    /\ inbox[s] = <<>>
    /\ \E m \in ClientMsgs(s) :
          inbox' = [inbox EXCEPT ![s] = Append(@, m)]
    /\ stamped' = stamped + 1
    /\ UNCHANGED <<pc, audio_buffer, pending, client_state, sent, closes, escaped, hist,
                   oneshot>>

(***************************************************************************)
(* websocket_audio, src/main.py:57-121.                                    *)
(***************************************************************************)
\* (a faulty buffer that is one object shared by all sessions)
Shared(f, s, v) == [t \in DOMAIN f |-> v]

\* audio_buffer is a local variable of the coroutine (line 60): an update
\* by session s touches the buffer of s only
Local(f, s, v) == [f EXCEPT ![s] = v]

\* await websocket.accept(); audio_buffer = bytearray()      (lines 59-60).
\* accept() is awaited before the try of line 68: when the transport fails
\* during the handshake the exception leaves websocket_audio, close() is
\* not called
Accept(s) ==
    /\ pc[s] = "accept"
    /\ \/ /\ pc' = [pc EXCEPT ![s] = "receive"]
          /\ audio_buffer' = Local(audio_buffer, s, <<>>)
          /\ UNCHANGED escaped
       \/ /\ pc' = [pc EXCEPT ![s] = "done"]
          /\ escaped' = [escaped EXCEPT ![s] = TRUE]
          /\ UNCHANGED audio_buffer
    /\ UNCHANGED <<pending, inbox, client_state, sent, closes, hist, stamped, oneshot>>

\* (a faulty handler that takes the next message while a result is still to
\* be sent, as a handler running the analysis in a task of its own would)
TakenAnytime(s) ==
    /\ pc[s] \in {"receive", "send_detected", "send_error"}
    /\ client_state[s] = "CONNECTED"
    /\ inbox[s] # <<>>
    /\ inbox' = [inbox EXCEPT ![s] = Tail(@)]
    /\ received' = [received EXCEPT ![s] = Append(@, Head(inbox[s]))]
    /\ client_state' = [client_state EXCEPT
                           ![s] = IF IsDisconnect(Head(inbox[s])) THEN "DISCONNECTED" ELSE @]

\* the message receive() returns, and what receiving it does to the connection
Taken(s) ==
    /\ pc[s] = "receive"
    /\ client_state[s] = "CONNECTED"
    /\ inbox[s] # <<>>
    /\ inbox' = [inbox EXCEPT ![s] = Tail(@)]
    /\ received' = [received EXCEPT ![s] = Append(@, Head(inbox[s]))]
    /\ client_state' = [client_state EXCEPT
                           ![s] = IF IsDisconnect(Head(inbox[s])) THEN "DISCONNECTED" ELSE @]

\* (a faulty loop that waits for a further message after the disconnect
\* message instead of getting the error of receive())
ReceiveDisconnectWaits(s) ==
    /\ Taken(s)
    /\ IsDisconnect(Head(inbox[s]))
    /\ UNCHANGED <<pc, audio_buffer, pending, sent, closes, escaped, windows, oracles,
                   accum, stamped, oneshot>>

\* the disconnect message: neither branch is taken (lines 73, 108), the
\* loop calls receive() again, which raises at once because the disconnect
\* message has been received; the except clause of line 115 leads to the
\* close of the finally block, where the coroutine is suspended next
ReceiveDisconnect(s) ==
    /\ Taken(s)
    /\ IsDisconnect(Head(inbox[s]))
    /\ pc' = [pc EXCEPT ![s] = "close"]
    /\ UNCHANGED <<audio_buffer, pending, sent, closes, escaped, windows, oracles,
                   accum, stamped, oneshot>>

\* a binary frame: lines 73-78, and the analysis up to its send_json if the
\* buffer has reached the window size
ReceiveBytes(s) ==
    /\ Taken(s)
    /\ "bytes" \in DOMAIN Head(inbox[s])
    /\ \E buf \in {BExtend(audio_buffer[s], Head(inbox[s]).bytes)} :
           /\ audio_buffer' = Local(audio_buffer, s, buf)
           /\ accum' = [accum EXCEPT ![s] = Norm(@ \o Head(inbox[s]).bytes)]
           /\ IF WindowReady(buf)
              THEN \E o \in Oracles, window \in {Window(buf)} :
                   \E result \in {Analyze(window, o)} :
                     /\ windows' = [windows EXCEPT ![s] = Append(@, window)]
                     /\ oracles' = [oracles EXCEPT ![s] = Append(@, o)]
                     /\ pc' = [pc EXCEPT ![s] = result.next]
                     /\ pending' = [pending EXCEPT ![s] = result.payload]
              ELSE UNCHANGED <<pc, pending, windows, oracles>>
    /\ UNCHANGED <<sent, closes, escaped, stamped, oneshot>>

\* (a faulty stop that first has the partial buffer analysed)
ReceiveStopDrain(s) ==
    /\ Taken(s)
    /\ "bytes" \notin DOMAIN Head(inbox[s])
    /\ IsStop(Head(inbox[s]))
    /\ IF audio_buffer[s] # <<>>
       THEN /\ windows' = [windows EXCEPT ![s] = Append(@, audio_buffer[s])]
            /\ oracles' = [oracles EXCEPT ![s] = Append(@, [tempo |-> Raised, key |-> NotCalled])]
            /\ pc' = [pc EXCEPT ![s] = "send_error"]
            /\ pending' = [pending EXCEPT ![s] = ErrorMsg]
       ELSE /\ pc' = [pc EXCEPT ![s] = "send_stopped"]
            /\ pending' = [pending EXCEPT ![s] = StoppedMsg]
            /\ UNCHANGED <<windows, oracles>>
    /\ UNCHANGED <<audio_buffer, sent, closes, escaped, accum, stamped, oneshot>>

\* the stop command: line 108, up to the send_json of line 110
ReceiveStop(s) ==
    /\ Taken(s)
    /\ "bytes" \notin DOMAIN Head(inbox[s])
    /\ IsStop(Head(inbox[s]))
    /\ pc' = [pc EXCEPT ![s] = "send_stopped"]
    /\ pending' = [pending EXCEPT ![s] = StoppedMsg]
    /\ UNCHANGED <<audio_buffer, sent, closes, escaped, windows, oracles, accum, stamped, oneshot>>

\* (a faulty handler that empties the buffer on a message it does not know)
ReceiveOtherClears(s) ==
    /\ Taken(s)
    /\ ~IsDisconnect(Head(inbox[s]))
    /\ "bytes" \notin DOMAIN Head(inbox[s])
    /\ ~IsStop(Head(inbox[s]))
    /\ audio_buffer' = Local(audio_buffer, s, <<>>)
    /\ accum' = [accum EXCEPT ![s] = <<>>]
    /\ UNCHANGED <<pc, pending, sent, closes, escaped, windows, oracles, stamped, oneshot>>

\* any other message: neither branch is taken, the loop receives again
ReceiveOther(s) ==
    /\ Taken(s)
    /\ ~IsDisconnect(Head(inbox[s]))
    /\ "bytes" \notin DOMAIN Head(inbox[s])
    /\ ~IsStop(Head(inbox[s]))
    /\ UNCHANGED <<pc, audio_buffer, pending, sent, closes, escaped, windows, oracles,
                   accum, stamped, oneshot>>

Receive(s) == ReceiveDisconnect(s) \/ ReceiveBytes(s) \/ ReceiveStop(s) \/ ReceiveOther(s)

\* websocket.close(code=1000), line 119, and whether it raised
CloseCall(raised) == [code |-> 1000, raised |-> raised]

\* (a faulty finally block that lets the exception of close() out)
CloseReraises(raised) == raised

\* the except clause of line 120: does an exception of close() leave the handler
CloseEscapes(raised) == FALSE

\* what send_json may raise when the peer has gone: the OSError of the
\* transport (uvicorn's ClientDisconnected), after which starlette has
\* marked the connection closed, or another error
SendErrors == {"OSError", "RuntimeError"}

\* where a send_json that raises leaves the coroutine.  After an OSError the
\* connection is marked closed, so every further send raises at once: the
\* close() of line 119 raises before any await, line 120 swallows that and
\* the handler is over.  After another error the Detected send of line 89,
\* which is inside the inner try, is followed by the Error send of line 98;
\* the Error send and the Stopped send of line 110 are caught by line 115
\* only and the coroutine is suspended next in close()
AfterSendRaised(at, exc) ==
    IF exc = "OSError" THEN [next |-> "done", payload |-> NoMsg]
    ELSE IF at = "send_detected" THEN ToSendError
    ELSE [next |-> "close", payload |-> NoMsg]

\* a send_json of session s raises while the peer has gone
SendRaises(s) ==
    /\ PeerGone(s)
    /\ \E exc \in SendErrors :
          /\ pc' = [pc EXCEPT ![s] = AfterSendRaised(pc[s], exc).next]
          /\ pending' = [pending EXCEPT ![s] = AfterSendRaised(pc[s], exc).payload]
          /\ IF AfterSendRaised(pc[s], exc).next = "done"
             THEN /\ closes' = [closes EXCEPT ![s] = Append(@, CloseCall(TRUE))]
                  /\ escaped' = [escaped EXCEPT ![s] = CloseEscapes(TRUE)]
             ELSE UNCHANGED <<closes, escaped>>

\* (a faulty clear that keeps the bytes behind the window for the next one)
CarryOver(buf) == BDrop(buf, TARGET_SIZE)

\* audio_buffer.clear(), src/main.py:105
Cleared(buf) == <<>>

\* the send_json of a result (line 89 or 98) and, when it returns,
\* audio_buffer.clear() (line 105) and the next turn of the loop
SendResult(s) ==
    /\ pc[s] \in {"send_detected", "send_error"}
    /\ \/ /\ sent' = [sent EXCEPT ![s] = Append(@, pending[s])]
          /\ audio_buffer' = Local(audio_buffer, s, Cleared(audio_buffer[s]))
          /\ accum' = [accum EXCEPT ![s] = <<>>]
          /\ pc' = [pc EXCEPT ![s] = "receive"]
          /\ pending' = [pending EXCEPT ![s] = NoMsg]
          /\ UNCHANGED <<closes, escaped>>
       \/ /\ SendRaises(s)
          /\ UNCHANGED <<sent, audio_buffer, accum>>
    /\ UNCHANGED <<inbox, client_state, received, windows, oracles, stamped, oneshot>>

\* the send_json of line 110 and the break of line 113
SendStopped(s) ==
    /\ pc[s] = "send_stopped"
    /\ \/ /\ sent' = [sent EXCEPT ![s] = Append(@, pending[s])]
          /\ pc' = [pc EXCEPT ![s] = "close"]
          /\ pending' = [pending EXCEPT ![s] = NoMsg]
          /\ UNCHANGED <<closes, escaped>>
       \/ /\ SendRaises(s)
          /\ UNCHANGED sent
    /\ UNCHANGED <<audio_buffer, inbox, client_state, hist, stamped, oneshot>>

\* finally: await websocket.close(code=1000)                (lines 117-121)
Close(s) ==
    /\ pc[s] = "close"
    /\ pc' = [pc EXCEPT ![s] = "done"]
    /\ \E raised \in (IF PeerGone(s) THEN BOOLEAN ELSE {FALSE}) :
          /\ closes' = [closes EXCEPT ![s] = Append(@, CloseCall(raised))]
          /\ escaped' = [escaped EXCEPT ![s] = CloseEscapes(raised)]
    /\ UNCHANGED <<audio_buffer, pending, inbox, client_state, sent, hist, stamped, oneshot>>

Handler(s) == Accept(s) \/ Receive(s) \/ SendResult(s) \/ SendStopped(s) \/ Close(s)

Next == \E s \in Sessions : ClientSend(s) \/ Handler(s)

Spec == Init /\ [][Next]_vars

(***************************************************************************)
(* Scripted clients: the client of session 1 sends a fixed sequence of     *)
(* messages (an end-to-end scenario of the specification, or one way of    *)
(* cutting a window-sized byte string into chunks); the other sessions     *)
(* stay connected and silent.                                              *)
(***************************************************************************)
\* scenario 1: one chunk of 441000 zero bytes
Scenario1 == <<BytesMsg(Run(0, TARGET_SIZE))>>

\* scenario 2: 10 chunks of 44100 bytes, the bytes of chunk i have value i
ScenarioChunkLen == TARGET_SIZE \div (2 * SECONDS)
ScenarioChunks == TARGET_SIZE \div ScenarioChunkLen
Scenario2 == [i \in 1..ScenarioChunks |-> BytesMsg(Run(i, ScenarioChunkLen))]

\* scenario 3: a stop command in any case and padding, before any chunk
\* (among them "stop" before CR LF, U+000B, U+0085, U+00A0, U+1680 or U+2028
\* and "STOP" after U+001F or between two U+3000)
StopTexts == { Text(<<"S", "T", "O", "P">>), Text(<<" ", "S", "t", "o", "p", " ">>), STOP_TEXT,
               STOP_TEXT \o <<13, 10>>, STOP_TEXT \o <<11>>, STOP_TEXT \o <<133>>,
               STOP_TEXT \o <<160>>, STOP_TEXT \o <<5760>>, STOP_TEXT \o <<8232>>,
               <<31>> \o Text(<<"S", "T", "O", "P">>),
               <<12288>> \o Text(<<"S", "T", "O", "P">>) \o <<12288>> }
Scenario3 == { <<TextMsg(t)>> : t \in StopTexts }

\* byte strings of exactly one window, and the places they may be cut at
ByteStrings ==
    { Run(7, TARGET_SIZE),
      Run(1, ScenarioChunkLen) \o Run(2, TARGET_SIZE - ScenarioChunkLen),
      Run(3, 1) \o Run(4, TARGET_SIZE \div 2) \o Run(5, TARGET_SIZE \div 2 - 1) }
CutPoints == {1, ScenarioChunkLen, TARGET_SIZE \div 2, TARGET_SIZE - 1}

Min(S) == CHOOSE x \in S : \A y \in S : x <= y

RECURSIVE Split(_, _)
Split(b, cuts) ==
    IF cuts = {} THEN <<BytesMsg(b)>>
    ELSE LET c == Min(cuts)
         IN  <<BytesMsg(BTake(b, c))>> \o Split(BDrop(b, c), {x - c : x \in cuts \ {c}})

SplitScripts == { Split(b, cuts) : b \in ByteStrings, cuts \in SUBSET CutPoints }

\* texts that are not a stop command: "go", the empty text, "stops", "s top",
\* "STOP NOW", "ST" U+00D6 "P", "stop" before U+200B (no white space), U+017F
\* "top" and U+FB06 "op" (which only case folding turns into "stop"), U+039F
\* U+03A3 (with a final sigma) and U+0130; each is sent after half a window
FoldedTexts == { <<383>> \o Text(<<"t", "o", "p">>), <<64262>> \o Text(<<"o", "p">>) }
OtherTexts == { Text(<<"g", "o">>), <<>>, Text(<<"s", "t", "o", "p", "s">>),
                Text(<<"s", " ", "t", "o", "p">>),
                Text(<<"S", "T", "O", "P", " ", "N", "O", "W">>),
                <<83, 84, 214, 80>>, STOP_TEXT \o <<8203>>, <<927, 931>>, <<304>> }
                  \cup FoldedTexts
OtherScripts == { <<BytesMsg(Run(1, TARGET_SIZE \div 2)), TextMsg(t)>> : t \in OtherTexts }

\* a script, or a script after which the client goes away
Scripts ==
    LET base == {Scenario1, Scenario2} \cup Scenario3 \cup SplitScripts
                   \cup { sc \o <<TextMsg(Text(<<"g", "o">>))>> \o sc : sc \in Scenario3 }
                   \cup { <<TextMsg(Text(<<"g", "o">>))>> \o sc : sc \in Scenario3 }
                   \cup OtherScripts
                   \cup { <<TextMsg(t)>> : t \in FoldedTexts }
    IN  base \cup { sc \o <<DisconnectMsg>> : sc \in base }

InitScript == \E sc \in Scripts : InitWith([s \in Sessions |-> IF s = 1 THEN sc ELSE <<>>])

NextScript == \E s \in Sessions : Handler(s)

SpecScript == InitScript /\ [][NextScript]_vars

\* the whole message sequence of the client of session s
Script(s) == received[s] \o inbox[s]


(***************************************************************************)
(* decode_pcm called once, on its own, on a short byte string.             *)
(***************************************************************************)
MaxBytes == 4         \* longest byte string handed to decode_pcm in SpecDecode

\* byte values that give the extreme and the sign-changing samples
ByteVals == {0, 127, 128, 255}
ChannelCounts == {1, 2}

RECURSIVE SeqsUpTo(_, _)
SeqsUpTo(S, n) ==
    IF n = 0 THEN {<<>>}
    ELSE LET shorter == SeqsUpTo(S, n - 1)
         IN  shorter \cup {Append(q, x) : q \in {r \in shorter : Len(r) = n - 1}, x \in S}

\* a byte string given byte by byte, as runs, and back
Encode(bs) == Norm([i \in 1..Len(bs) |-> <<bs[i], 1>>])

RECURSIVE Expand(_)
Expand(runs) ==
    IF runs = <<>> THEN <<>>
    ELSE [i \in 1..runs[1][2] |-> runs[1][1]] \o Expand(Tail(runs))

\* (a faulty decoder that empties the buffer it was given)
BufferConsumed(pcm) == <<>>

\* the caller's buffer after the call: np.frombuffer is a view of it, astype
\* and the division make new arrays, nothing is written back (lines 29-38)
BufferAfterDecode(pcm) == pcm

InitDecode ==
    /\ InitStream([s \in Sessions |-> <<>>])
    /\ request = NoCall
    /\ \E bs \in SeqsUpTo(ByteVals, MaxBytes), ch \in ChannelCounts :
          decode_call = [state |-> "called", arg |-> bs, pcm |-> bs, channels |-> ch]

\* decode_pcm(pcm, sample_rate=SAMPLE_RATE, channels=ch) runs to its end
Decode ==
    /\ decode_call.state = "called"
    /\ decode_call' = [state |-> "returned", arg |-> decode_call.arg,
                       pcm |-> BufferAfterDecode(decode_call.pcm),
                       channels |-> decode_call.channels,
                       result |-> decode_pcm(Encode(decode_call.arg), SAMPLE_RATE,
                                             decode_call.channels)]
    /\ UNCHANGED <<stream, request>>

NextDecode == Decode

SpecDecode == InitDecode /\ [][NextDecode]_vars

(***************************************************************************)
(* A client that sends up to MaxMsgs - 1 chunks and texts and then goes    *)
(* away, with a handler that the event loop keeps running.                 *)
(***************************************************************************)
LiveKinds == {BytesMsg(Run(0, n)) : n \in ChunkLens} \cup {TextMsg(t) : t \in Texts}

\* the messages msgs as session t gets them: chunk k carries the byte ByteOf(t, k)
Stamp(t, msgs) ==
    [k \in 1..Len(msgs) |->
        IF "bytes" \in DOMAIN msgs[k]
        THEN BytesMsg(Run(ByteOf(t, k), BLen(msgs[k].bytes)))
        ELSE msgs[k]]

LiveScripts(t) ==
    { Stamp(t, q) \o <<DisconnectMsg>> : q \in SeqsUpTo(LiveKinds, MaxMsgs - 1) }

InitLive ==
    \E t \in Sessions : \E sc \in LiveScripts(t) :
        InitWith([s \in Sessions |-> IF s = t THEN sc ELSE <<>>])

\* the event loop resumes a coroutine whose await can complete: a handler
\* that can take a step is not left suspended forever
Fairness == \A s \in Sessions : WF_vars(Handler(s))

SpecLive == InitLive /\ [][NextScript]_vars /\ Fairness

(***************************************************************************)
(* The one-shot endpoint, src/main.py:16-21 and 44-54: one POST request,   *)
(* taken through the routing on the path declared at line 44, the parsing  *)
(* of the form that carries the upload (the parameter File(...) of line    *)
(* 45), the dependency verify_api_key, the validation of the form against *)
(* that parameter, the await of file.read() and the synchronous rest of    *)
(* analyze_audio.  What the form parser, the upload reader, the            *)
(* container-aware reader sf.read and the estimators do is an input.       *)
(***************************************************************************)
API_KEY == "your-secret-key"

\* the path of @app.post("analyze"), line 44: it has no leading slash, and
\* the route matches a request whose path is exactly this string
ROUTE_PATH == "analyze"

\* paths of a request: the path of the URL .../analyze, which a client
\* sends, and the path without the slash, which no URL gives and which
\* reaches the application only in a request line or a scope written by
\* hand
Paths == { "/analyze", "analyze" }

NoHeader == [present |-> FALSE]
Header(v) == [present |-> TRUE, value |-> v]

\* x-api-key headers a client may send: none, an empty one, two wrong ones
\* and the pre-shared key
Headers == { NoHeader, Header(""), Header("wrong"), Header("YOUR-SECRET-KEY"),
             Header("your-secret-key") }

RaisedAt(site) == [raised |-> TRUE, site |-> site]
HTTPException(status_code, detail) ==
    [raised |-> TRUE, status_code |-> status_code, detail |-> detail]

\* verify_api_key, src/main.py:18-21; headers.get gives None without the header
verify_api_key(headers) ==
    IF ~headers.present \/ headers.value # API_KEY
    THEN HTTPException(403, "Unauthorized")
    ELSE Returned(<<>>)

\* the parameters of the estimator wrappers, src/Music_Anaylizer.py:14, 21
find_bpm_params == <<"audio">>
find_keysig_params == <<"audio">>

\* a call with positional arguments: Python raises TypeError before the
\* body runs unless there is one argument for each parameter
Positional(name, params, args, body) ==
    IF Len(args) # Len(params) THEN RaisedAt(name)
    ELSE IF body.raised THEN RaisedAt(name)
    ELSE body

\* lines 48-52 of analyze_audio, after file.read() returned: the calls made
\* and what the try block did
analyze_audio(req) ==
    IF req.sf_read.raised
    THEN [calls |-> <<"sf.read">>, result |-> RaisedAt("sf.read")]
    ELSE LET bpm == Positional("find_bpm", find_bpm_params, <<"y", "sr">>,
                               find_bpm(req.estimators.tempo))
         IN  IF bpm.raised
             THEN [calls  |-> <<"sf.read", "find_bpm">>,
                   result |-> bpm]
             ELSE LET key == Positional("find_keysig", find_keysig_params, <<"y", "sr">>,
                                        find_keysig(req.estimators.key))
                  IN  IF key.raised
                      THEN [calls  |-> <<"sf.read", "find_bpm", "find_keysig">>,
                            result |-> key]
                      ELSE [calls  |-> <<"sf.read", "find_bpm", "find_keysig">>,
                            result |-> Returned([bpm |-> bpm.value, key |-> key.value,
                                                 status |-> "Detected"])]

\* what the parsing of the request's form may give: the parser raises, or
\* it returns the names of the parts of the form, which has no part (an
\* empty body), the part "file" of the upload, or only a part "other"
Forms == { RaisedAt("request.form"), Returned(<<>>), Returned(<<"file">>),
           Returned(<<"other">>) }

\* the form has the part the parameter file: UploadFile = File(...) of line
\* 45 requires
HasUpload(form) == \E i \in DOMAIN form.value : form.value[i] = "file"

\* the errors of the validation when that part is missing
MissingFile ==
    <<[type |-> "missing", loc |-> <<"body", "file">>, msg |-> "Field required",
       input |-> "null"]>>

\* what the framework answers to an HTTPException raised before the handler
\* is called
Rejected(exc) == [status |-> exc.status_code, body |-> [detail |-> exc.detail]]

\* the return of line 52 and the except clause of lines 53-54
Respond(req, result) ==
    IF result.raised
    THEN [req EXCEPT !.state = "responded",
                     !.responses = Append(@, [status |-> 500,
                                              body   |-> [error |-> result.site]])]
    ELSE [req EXCEPT !.state = "responded",
                     !.responses = Append(@, [status |-> 200, body |-> result.value])]

InitHttp ==
    /\ InitStream([s \in Sessions |-> <<>>])
    /\ decode_call = NoCall
    /\ \E p \in Paths, h \in Headers,
          fm \in Forms,
          fr \in {RaisedAt("file.read"), Returned(<<>>)},
          sr \in {RaisedAt("sf.read"), Returned(<<>>)}, o \in Oracles :
          request = [state |-> "arrived", path |-> p, headers |-> h, form |-> fm,
                     file_read |-> fr, sf_read |-> sr, estimators |-> o,
                     calls |-> <<>>, responses |-> <<>>, escaped |-> FALSE]

\* the routing of the request on the path of line 44: a path that is not
\* the declared one is answered 404 and nothing of main.py runs
Route ==
    /\ request.state = "arrived"
    /\ request' = IF request.path = ROUTE_PATH
                  THEN [request EXCEPT !.state = "matched"]
                  ELSE [request EXCEPT !.state = "responded",
                                       !.responses = Append(@,
                                           Rejected(HTTPException(404, "Not Found")))]
    /\ UNCHANGED <<stream, decode_call>>

\* the form of the request is parsed for the upload of File(...), line 45,
\* before the dependencies run: a body that cannot be parsed is answered
\* 400 (the detail is the parser's message)
ParseForm ==
    /\ request.state = "matched"
    /\ request' = IF request.form.raised
                  THEN [request EXCEPT !.state = "responded",
                                       !.responses = Append(@,
                                           Rejected(HTTPException(400, request.form.site)))]
                  ELSE [request EXCEPT !.state = "parsed"]
    /\ UNCHANGED <<stream, decode_call>>

\* Depends(verify_api_key), line 45: runs before the handler is called
VerifyKey ==
    /\ request.state = "parsed"
    /\ LET v == verify_api_key(request.headers)
       IN  request' = IF v.raised
                      THEN [request EXCEPT !.state = "responded",
                                           !.responses = Append(@, Rejected(v))]
                      ELSE [request EXCEPT !.state = "authorized"]
    /\ UNCHANGED <<stream, decode_call>>

\* the parsed form is validated against file: UploadFile = File(...), line
\* 45, once the dependency has returned: a form without the part "file" is
\* answered 422 and analyze_audio is not called
ValidateForm ==
    /\ request.state = "authorized"
    /\ request' = IF HasUpload(request.form)
                  THEN [request EXCEPT !.state = "validated"]
                  ELSE [request EXCEPT !.state = "responded",
                                       !.responses = Append(@,
                                           [status |-> 422, body |-> [detail |-> MissingFile]])]
    /\ UNCHANGED <<stream, decode_call>>

\* await file.read(), line 47
ReadFile ==
    /\ request.state = "validated"
    /\ request' = IF request.file_read.raised
                  THEN Respond([request EXCEPT !.calls = Append(@, "file.read")],
                               request.file_read)
                  ELSE [request EXCEPT !.state = "read",
                                       !.calls = Append(@, "file.read")]
    /\ UNCHANGED <<stream, decode_call>>

\* lines 48-54
AnalyzeClip ==
    /\ request.state = "read"
    /\ LET a == analyze_audio(request)
       IN  request' = Respond([request EXCEPT !.calls = @ \o a.calls], a.result)
    /\ UNCHANGED <<stream, decode_call>>

NextHttp == Route \/ ParseForm \/ VerifyKey \/ ValidateForm \/ ReadFile \/ AnalyzeClip
SpecHttp == InitHttp /\ [][NextHttp]_vars


(***************************************************************************)
(* Properties.                                                             *)
(***************************************************************************)
Last(q) == q[Len(q)]

Statuses(q) == [i \in 1..Len(q) |-> q[i].status]

NoDisconnect(q) == \A i \in 1..Len(q) : ~IsDisconnect(q[i])

\* C1 (as claimed): in scenario 2 (10 chunks of 44100 bytes) nothing is sent
\* after chunks 1 to 9, and once the 10th chunk has been handled exactly one
\* message has been sent and its status is "Detected".
C1_Scenario2Detected ==
    Script(1) = Scenario2 =>
        /\ Len(received[1]) < ScenarioChunks => sent[1] = <<>>
        /\ (Len(received[1]) = ScenarioChunks /\ pc[1] = "receive")
              => Statuses(sent[1]) = <<"Detected">>

\* C2: every byte string handed to decode_pcm has exactly TARGET_SIZE = 441000
\* bytes, and the one being analysed is the first 441000 bytes received since
\* the buffer was last empty.
C2_WindowExact ==
    /\ TARGET_SIZE = 441000
    /\ \A s \in Sessions :
          /\ \A i \in 1..Len(windows[s]) : BLen(windows[s][i]) = 441000
          /\ pc[s] \in {"send_detected", "send_error"} =>
                /\ windows[s] # <<>>
                /\ Last(windows[s]) = BTake(accum[s], 441000)

\* a window is being analysed that was cut out of a longer buffer made of
\* two chunks
C2_Witness ==
    \E s \in Sessions :
        /\ pc[s] = "send_error"
        /\ Len(received[s]) = 2
        /\ BLen(audio_buffer[s]) > TARGET_SIZE
        /\ Len(Last(windows[s])) = 2

\* C3: a byte string of exactly the window size, delivered in one chunk or cut
\* at any of the cut points into 2..5 chunks, gives no window before its last
\* chunk and exactly one window after it, whose content is the byte string
\* itself whatever the cuts.
C3_ChunkingIndependent ==
    \A b \in ByteStrings : \A cuts \in SUBSET CutPoints :
        Script(1) = Split(b, cuts) =>
            /\ inbox[1] # <<>> => windows[1] = <<>>
            /\ inbox[1] = <<>> => windows[1] = <<b>>

\* the three-run byte string, cut at all four cut points, has been received
C3_Witness ==
    /\ Len(received[1]) = Cardinality(CutPoints) + 1
    /\ inbox[1] = <<>>
    /\ Len(windows[1]) = 1
    /\ Len(windows[1][1]) = 3
    /\ pc[1] = "receive"

\* a text frame whose trimmed, lower-cased content is "stop"
StopCommand(m) == "text" \in DOMAIN m /\ lower(strip(m.text)) = STOP_TEXT

\* a stop command is among the messages q
StopAmong(q) == \E i \in 1..Len(q) : \E m \in {q[i]} : StopCommand(m)

StopSeen(s) == StopAmong(received[s])

\* C4: a stop command arrives with fewer than TARGET_SIZE bytes buffered; the
\* handler goes to the send of {"status": "Stopped"} and from there to the
\* close (which has already failed, if the send raised the OSError of a
\* peer that has gone); from the arrival on nothing is handed to decode_pcm,
\* the buffer is not touched and nothing but the Stopped message is sent.
C4_StopNoPartial ==
    [][\A s \in Sessions :
          /\ (\E q \in {received'[s]} : StopAmong(q)) =>
                /\ BLen(audio_buffer[s]) < TARGET_SIZE
                /\ windows'[s] = windows[s]
                /\ audio_buffer'[s] = audio_buffer[s]
                /\ sent'[s] \in {sent[s], Append(sent[s], StoppedMsg)}
                /\ pc'[s] \in {"send_stopped", "close", "done"}
          /\ (pc[s] = "send_stopped" /\ pc'[s] # "send_stopped") =>
                \/ pc'[s] = "close" /\ sent'[s] = Append(sent[s], StoppedMsg)
                \/ PeerGone(s) /\ pc'[s] = "close" /\ sent'[s] = sent[s]
                \/ /\ PeerGone(s) /\ pc'[s] = "done" /\ sent'[s] = sent[s]
                   /\ closes'[s] = <<CloseCall(TRUE)>>
      ]_vars

\* a session stopped with a partial, non-empty buffer: only Stopped was sent
C4_Witness ==
    \E s \in Sessions :
        /\ pc[s] = "done"
        /\ received[s] # <<>>
        /\ StopCommand(Last(received[s]))
        /\ audio_buffer[s] # <<>>
        /\ windows[s] = <<>>
        /\ sent[s] = <<StoppedMsg>>

\* str.casefold(), the case folding of the Unicode standard: the characters
\* folded into one other character, as runs <<first, last, step, delta>>,
\* and those folded into several, as pairs <<character, folded>>
FoldRuns ==
    {
      <<65, 90, 1, 32>>, <<181, 181, 1, 775>>, <<192, 214, 1, 32>>, <<216, 222, 1, 32>>,
      <<256, 302, 2, 1>>, <<306, 310, 2, 1>>, <<313, 327, 2, 1>>, <<330, 374, 2, 1>>,
      <<376, 376, 1, -121>>, <<377, 381, 2, 1>>, <<383, 383, 1, -268>>, <<385, 385, 1, 210>>,
      <<386, 388, 2, 1>>, <<390, 390, 1, 206>>, <<391, 391, 1, 1>>, <<393, 394, 1, 205>>,
      <<395, 395, 1, 1>>, <<398, 398, 1, 79>>, <<399, 399, 1, 202>>, <<400, 400, 1, 203>>,
      <<401, 401, 1, 1>>, <<403, 403, 1, 205>>, <<404, 404, 1, 207>>, <<406, 406, 1, 211>>,
      <<407, 407, 1, 209>>, <<408, 408, 1, 1>>, <<412, 412, 1, 211>>, <<413, 413, 1, 213>>,
      <<415, 415, 1, 214>>, <<416, 420, 2, 1>>, <<422, 422, 1, 218>>, <<423, 423, 1, 1>>,
      <<425, 425, 1, 218>>, <<428, 428, 1, 1>>, <<430, 430, 1, 218>>, <<431, 431, 1, 1>>,
      <<433, 434, 1, 217>>, <<435, 437, 2, 1>>, <<439, 439, 1, 219>>, <<440, 440, 1, 1>>,
      <<444, 444, 1, 1>>, <<452, 452, 1, 2>>, <<453, 453, 1, 1>>, <<455, 455, 1, 2>>,
      <<456, 456, 1, 1>>, <<458, 458, 1, 2>>, <<459, 475, 2, 1>>, <<478, 494, 2, 1>>,
      <<497, 497, 1, 2>>, <<498, 500, 2, 1>>, <<502, 502, 1, -97>>, <<503, 503, 1, -56>>,
      <<504, 542, 2, 1>>, <<544, 544, 1, -130>>, <<546, 562, 2, 1>>, <<570, 570, 1, 10795>>,
      <<571, 571, 1, 1>>, <<573, 573, 1, -163>>, <<574, 574, 1, 10792>>, <<577, 577, 1, 1>>,
      <<579, 579, 1, -195>>, <<580, 580, 1, 69>>, <<581, 581, 1, 71>>, <<582, 590, 2, 1>>,
      <<837, 837, 1, 116>>, <<880, 882, 2, 1>>, <<886, 886, 1, 1>>, <<895, 895, 1, 116>>,
      <<902, 902, 1, 38>>, <<904, 906, 1, 37>>, <<908, 908, 1, 64>>, <<910, 911, 1, 63>>,
      <<913, 929, 1, 32>>, <<931, 939, 1, 32>>, <<962, 962, 1, 1>>, <<975, 975, 1, 8>>,
      <<976, 976, 1, -30>>, <<977, 977, 1, -25>>, <<981, 981, 1, -15>>, <<982, 982, 1, -22>>,
      <<984, 1006, 2, 1>>, <<1008, 1008, 1, -54>>, <<1009, 1009, 1, -48>>,
      <<1012, 1012, 1, -60>>, <<1013, 1013, 1, -64>>, <<1015, 1015, 1, 1>>,
      <<1017, 1017, 1, -7>>, <<1018, 1018, 1, 1>>, <<1021, 1023, 1, -130>>,
      <<1024, 1039, 1, 80>>, <<1040, 1071, 1, 32>>, <<1120, 1152, 2, 1>>, <<1162, 1214, 2, 1>>,
      <<1216, 1216, 1, 15>>, <<1217, 1229, 2, 1>>, <<1232, 1326, 2, 1>>, <<1329, 1366, 1, 48>>,
      <<4256, 4293, 1, 7264>>, <<4295, 4295, 1, 7264>>, <<4301, 4301, 1, 7264>>,
      <<5112, 5117, 1, -8>>, <<7296, 7296, 1, -6222>>, <<7297, 7297, 1, -6221>>,
      <<7298, 7298, 1, -6212>>, <<7299, 7300, 1, -6210>>, <<7301, 7301, 1, -6211>>,
      <<7302, 7302, 1, -6204>>, <<7303, 7303, 1, -6180>>, <<7304, 7304, 1, 35267>>,
      <<7312, 7354, 1, -3008>>, <<7357, 7359, 1, -3008>>, <<7680, 7828, 2, 1>>,
      <<7835, 7835, 1, -58>>, <<7840, 7934, 2, 1>>, <<7944, 7951, 1, -8>>,
      <<7960, 7965, 1, -8>>, <<7976, 7983, 1, -8>>, <<7992, 7999, 1, -8>>,
      <<8008, 8013, 1, -8>>, <<8025, 8031, 2, -8>>, <<8040, 8047, 1, -8>>,
      <<8120, 8121, 1, -8>>, <<8122, 8123, 1, -74>>, <<8126, 8126, 1, -7173>>,
      <<8136, 8139, 1, -86>>, <<8152, 8153, 1, -8>>, <<8154, 8155, 1, -100>>,
      <<8168, 8169, 1, -8>>, <<8170, 8171, 1, -112>>, <<8172, 8172, 1, -7>>,
      <<8184, 8185, 1, -128>>, <<8186, 8187, 1, -126>>, <<8486, 8486, 1, -7517>>,
      <<8490, 8490, 1, -8383>>, <<8491, 8491, 1, -8262>>, <<8498, 8498, 1, 28>>,
      <<8544, 8559, 1, 16>>, <<8579, 8579, 1, 1>>, <<9398, 9423, 1, 26>>,
      <<11264, 11311, 1, 48>>, <<11360, 11360, 1, 1>>, <<11362, 11362, 1, -10743>>,
      <<11363, 11363, 1, -3814>>, <<11364, 11364, 1, -10727>>, <<11367, 11371, 2, 1>>,
      <<11373, 11373, 1, -10780>>, <<11374, 11374, 1, -10749>>, <<11375, 11375, 1, -10783>>,
      <<11376, 11376, 1, -10782>>, <<11378, 11378, 1, 1>>, <<11381, 11381, 1, 1>>,
      <<11390, 11391, 1, -10815>>, <<11392, 11490, 2, 1>>, <<11499, 11501, 2, 1>>,
      <<11506, 11506, 1, 1>>, <<42560, 42604, 2, 1>>, <<42624, 42650, 2, 1>>,
      <<42786, 42798, 2, 1>>, <<42802, 42862, 2, 1>>, <<42873, 42875, 2, 1>>,
      <<42877, 42877, 1, -35332>>, <<42878, 42886, 2, 1>>, <<42891, 42891, 1, 1>>,
      <<42893, 42893, 1, -42280>>, <<42896, 42898, 2, 1>>, <<42902, 42920, 2, 1>>,
      <<42922, 42922, 1, -42308>>, <<42923, 42923, 1, -42319>>, <<42924, 42924, 1, -42315>>,
      <<42925, 42925, 1, -42305>>, <<42926, 42926, 1, -42308>>, <<42928, 42928, 1, -42258>>,
      <<42929, 42929, 1, -42282>>, <<42930, 42930, 1, -42261>>, <<42931, 42931, 1, 928>>,
      <<42932, 42946, 2, 1>>, <<42948, 42948, 1, -48>>, <<42949, 42949, 1, -42307>>,
      <<42950, 42950, 1, -35384>>, <<42951, 42953, 2, 1>>, <<42960, 42960, 1, 1>>,
      <<42966, 42968, 2, 1>>, <<42997, 42997, 1, 1>>, <<43888, 43967, 1, -38864>>,
      <<65313, 65338, 1, 32>>, <<66560, 66599, 1, 40>>, <<66736, 66771, 1, 40>>,
      <<66928, 66928, 1, 39>>, <<66929, 66938, 1, 39>>, <<66940, 66954, 1, 39>>,
      <<66956, 66962, 1, 39>>, <<66964, 66965, 1, 39>>, <<68736, 68786, 1, 64>>,
      <<71840, 71871, 1, 32>>, <<93760, 93791, 1, 32>>, <<125184, 125217, 1, 34>>
    }

FoldFull ==
    {
      <<223, <<115, 115>>>>, <<304, <<105, 775>>>>, <<329, <<700, 110>>>>,
      <<496, <<106, 780>>>>, <<912, <<953, 776, 769>>>>, <<944, <<965, 776, 769>>>>,
      <<1415, <<1381, 1410>>>>, <<7830, <<104, 817>>>>, <<7831, <<116, 776>>>>,
      <<7832, <<119, 778>>>>, <<7833, <<121, 778>>>>, <<7834, <<97, 702>>>>,
      <<7838, <<115, 115>>>>, <<8016, <<965, 787>>>>, <<8018, <<965, 787, 768>>>>,
      <<8020, <<965, 787, 769>>>>, <<8022, <<965, 787, 834>>>>, <<8064, <<7936, 953>>>>,
      <<8065, <<7937, 953>>>>, <<8066, <<7938, 953>>>>, <<8067, <<7939, 953>>>>,
      <<8068, <<7940, 953>>>>, <<8069, <<7941, 953>>>>, <<8070, <<7942, 953>>>>,
      <<8071, <<7943, 953>>>>, <<8072, <<7936, 953>>>>, <<8073, <<7937, 953>>>>,
      <<8074, <<7938, 953>>>>, <<8075, <<7939, 953>>>>, <<8076, <<7940, 953>>>>,
      <<8077, <<7941, 953>>>>, <<8078, <<7942, 953>>>>, <<8079, <<7943, 953>>>>,
      <<8080, <<7968, 953>>>>, <<8081, <<7969, 953>>>>, <<8082, <<7970, 953>>>>,
      <<8083, <<7971, 953>>>>, <<8084, <<7972, 953>>>>, <<8085, <<7973, 953>>>>,
      <<8086, <<7974, 953>>>>, <<8087, <<7975, 953>>>>, <<8088, <<7968, 953>>>>,
      <<8089, <<7969, 953>>>>, <<8090, <<7970, 953>>>>, <<8091, <<7971, 953>>>>,
      <<8092, <<7972, 953>>>>, <<8093, <<7973, 953>>>>, <<8094, <<7974, 953>>>>,
      <<8095, <<7975, 953>>>>, <<8096, <<8032, 953>>>>, <<8097, <<8033, 953>>>>,
      <<8098, <<8034, 953>>>>, <<8099, <<8035, 953>>>>, <<8100, <<8036, 953>>>>,
      <<8101, <<8037, 953>>>>, <<8102, <<8038, 953>>>>, <<8103, <<8039, 953>>>>,
      <<8104, <<8032, 953>>>>, <<8105, <<8033, 953>>>>, <<8106, <<8034, 953>>>>,
      <<8107, <<8035, 953>>>>, <<8108, <<8036, 953>>>>, <<8109, <<8037, 953>>>>,
      <<8110, <<8038, 953>>>>, <<8111, <<8039, 953>>>>, <<8114, <<8048, 953>>>>,
      <<8115, <<945, 953>>>>, <<8116, <<940, 953>>>>, <<8118, <<945, 834>>>>,
      <<8119, <<945, 834, 953>>>>, <<8124, <<945, 953>>>>, <<8130, <<8052, 953>>>>,
      <<8131, <<951, 953>>>>, <<8132, <<942, 953>>>>, <<8134, <<951, 834>>>>,
      <<8135, <<951, 834, 953>>>>, <<8140, <<951, 953>>>>, <<8146, <<953, 776, 768>>>>,
      <<8147, <<953, 776, 769>>>>, <<8150, <<953, 834>>>>, <<8151, <<953, 776, 834>>>>,
      <<8162, <<965, 776, 768>>>>, <<8163, <<965, 776, 769>>>>, <<8164, <<961, 787>>>>,
      <<8166, <<965, 834>>>>, <<8167, <<965, 776, 834>>>>, <<8178, <<8060, 953>>>>,
      <<8179, <<969, 953>>>>, <<8180, <<974, 953>>>>, <<8182, <<969, 834>>>>,
      <<8183, <<969, 834, 953>>>>, <<8188, <<969, 953>>>>, <<64256, <<102, 102>>>>,
      <<64257, <<102, 105>>>>, <<64258, <<102, 108>>>>, <<64259, <<102, 102, 105>>>>,
      <<64260, <<102, 102, 108>>>>, <<64261, <<115, 116>>>>, <<64262, <<115, 116>>>>,
      <<64275, <<1396, 1398>>>>, <<64276, <<1396, 1381>>>>, <<64277, <<1396, 1387>>>>,
      <<64278, <<1406, 1398>>>>, <<64279, <<1396, 1389>>>>
    }

FoldChar(c) ==
    IF \E p \in FoldFull : p[1] = c
    THEN (CHOOSE p \in FoldFull : p[1] = c)[2]
    ELSE <<Mapped(c, FoldRuns)>>

casefold(t) == Concat([i \in 1..Len(t) |-> FoldChar(t[i])])

\* a text frame whose trimmed, case-folded content is "stop"
FoldedStop(m) == "text" \in DOMAIN m /\ casefold(strip(m.text)) = STOP_TEXT

\* C5 (as claimed): when the first message is a text frame whose trimmed,
\* case-folded content is "stop" (and the client stays connected), the only
\* message ever sent is {"status": "Stopped"}, the handler leaves the loop,
\* and the connection is closed once, with code 1000, after the Stopped
\* message was sent.
C5_StopFirst ==
    (received[1] # <<>> /\ FoldedStop(received[1][1]) /\ NoDisconnect(Script(1))) =>
        /\ pc[1] \in {"send_stopped", "close", "done"}
        /\ sent[1] \in {<<>>, <<StoppedMsg>>}
        /\ pc[1] = "send_stopped" <=> sent[1] = <<>>
        /\ closes[1] # <<>> => sent[1] = <<StoppedMsg>> /\ closes[1] = <<CloseCall(FALSE)>>
        /\ pc[1] = "done" <=> closes[1] # <<>>

\* an estimator raised on the window
EstimatorRaised(o) == o.tempo.raised \/ o.key.raised

\* C6: when decode_pcm or an estimator raises on a full window, the handler
\* goes to the send of the Error message; when that send returns, the Error
\* message has been sent, the buffer is empty and the session is receiving
\* again; the session leaves the loop from there only if the peer has gone
\* and the send raised.
C6_ErrorRecovery ==
    [][\A s \in Sessions :
          /\ ( /\ Len(windows'[s]) > Len(windows[s])
               /\ \/ decode_pcm(Last(windows'[s]), SAMPLE_RATE, CHANNELS).raised
                  \/ EstimatorRaised(Last(oracles'[s])) ) =>
                /\ pc'[s] = "send_error"
                /\ pending'[s] = ErrorMsg
          /\ (pc[s] = "send_error" /\ pc'[s] # "send_error") =>
                \/ /\ sent'[s] = Append(sent[s], ErrorMsg)
                   /\ audio_buffer'[s] = <<>>
                   /\ pc'[s] = "receive"
                \/ PeerGone(s) /\ pc'[s] \in {"close", "done"} /\ sent'[s] = sent[s]
      ]_vars

\* an estimator raised on the first window, a second window was analysed
\* after it and the stop that followed was honoured
C6_Witness ==
    \E s \in Sessions :
        /\ Len(windows[s]) = 2
        /\ EstimatorRaised(oracles[s][1])
        /\ Statuses(sent[s]) = <<"Error", "Error", "Stopped">>

Results(q) == SelectSeq(q, LAMBDA m : m.status \in {"Detected", "Error"})

\* C7: a session has sent one result (Detected or Error) per window handed to
\* the analysis, except that the result of the window being analysed is still
\* to be sent; when it receives a message every window has its result; the
\* i-th result is that of the i-th window.  A completed window always leads
\* to the send of a result, which is delivered unless the peer has gone.
C7_OneResultPerWindow ==
    /\ [](\A s \in Sessions :
            LET r == Len(Results(sent[s]))
                w == Len(windows[s])
            IN  /\ r <= w /\ w <= r + 1
                /\ pc[s] = "receive" => r = w
                /\ pc[s] \in {"send_detected", "send_error"} => w = r + 1
                /\ \A i \in 1..r :
                      Results(sent[s])[i] \in
                          {Analyze(windows[s][i], oracles[s][i]).payload, ErrorMsg})
    /\ [][\A s \in Sessions :
            /\ received'[s] # received[s] => Len(Results(sent[s])) = Len(windows[s])
            /\ Len(windows'[s]) > Len(windows[s]) =>
                  /\ pc'[s] \in {"send_detected", "send_error"}
                  /\ pending'[s].status \in {"Detected", "Error"}
            /\ (pc[s] \in {"send_detected", "send_error"} /\ pc'[s] # pc[s]) =>
                  \/ pc'[s] = "receive" /\ sent'[s] = Append(sent[s], pending[s])
                  \/ PeerGone(s) /\ sent'[s] = sent[s]]_vars

\* two windows completed, two results sent, the session is receiving
C7_Witness ==
    \E s \in Sessions :
        /\ pc[s] = "receive"
        /\ Len(windows[s]) = 2
        /\ Statuses(sent[s]) = <<"Error", "Error">>

\* what a session running alone sends on the messages msgs, the estimators
\* doing orcs on its windows, over a transport that delivers every message
RECURSIVE Alone(_, _, _, _)
Alone(msgs, orcs, buf, out) ==
    IF msgs = <<>> THEN out
    ELSE LET m == Head(msgs)
         IN  IF "bytes" \in DOMAIN m
             THEN LET b == Norm(buf \o m.bytes)
                  IN  IF BLen(b) < TARGET_SIZE THEN Alone(Tail(msgs), orcs, b, out)
                      ELSE IF orcs = <<>> THEN out
                      ELSE Alone(Tail(msgs), Tail(orcs), <<>>,
                                 Append(out, Analyze(BTake(b, TARGET_SIZE), Head(orcs)).payload))
             ELSE IF StopCommand(m) THEN Append(out, StoppedMsg)
             ELSE Alone(Tail(msgs), orcs, buf, out)

IsPrefix(p, q) == Len(p) <= Len(q) /\ p = SubSeq(q, 1, Len(p))

SessionState(s) ==
    <<pc[s], audio_buffer[s], pending[s], inbox[s], client_state[s], sent[s], closes[s],
      escaped[s], received[s], windows[s], oracles[s], accum[s]>>

\* C8: with concurrent sessions and any interleaving of their messages, what
\* a session has sent is what it sends when it runs alone on the messages it
\* received (all of it while its peer is there and it is receiving, a prefix
\* of it otherwise), and no step changes the state of two sessions.
C8_SessionsIndependent ==
    /\ [](\A s \in Sessions :
            /\ IsPrefix(sent[s], Alone(received[s], oracles[s], <<>>, <<>>))
            /\ (pc[s] = "receive" /\ ~PeerGone(s)) =>
                  sent[s] = Alone(received[s], oracles[s], <<>>, <<>>))
    /\ [][\A s, t \in Sessions :
            s # t => ~(SessionState(s)' # SessionState(s) /\ SessionState(t)' # SessionState(t))]_vars

\* two sessions whose chunks arrived interleaved have each completed a window
C8_Witness ==
    \E s, t \in Sessions :
        /\ s # t
        /\ received[s] = <<BytesMsg(Run(ByteOf(s, 1), TARGET_SIZE \div 2)),
                            BytesMsg(Run(ByteOf(s, 2), TARGET_SIZE \div 2))>>
        /\ received[t] = <<BytesMsg(Run(ByteOf(t, 1), TARGET_SIZE + 1))>>
        /\ sent[s] = <<ErrorMsg>>
        /\ sent[t] = <<ErrorMsg>>

\* C9 (as claimed): no exception ever leaves websocket_audio, and the
\* handler is over only after websocket.close was called, once, with code
\* 1000, whether or not that call raised.
C9_AlwaysCloses ==
    \A s \in Sessions :
        /\ escaped[s] = FALSE
        /\ pc[s] = "done" => Len(closes[s]) = 1 /\ closes[s][1].code = 1000
        /\ pc[s] # "done" => closes[s] = <<>>

\* C9 (amended): once accept() has returned, no exception leaves
\* websocket_audio and the handler is over only after websocket.close was
\* called, once, with code 1000, whether or not that call raised.
C9_ClosesOnceAccepted ==
    /\ [](\A s \in Sessions :
            pc[s] \notin {"accept", "done"} => (escaped[s] = FALSE /\ closes[s] = <<>>))
    /\ [][\A s \in Sessions :
            (pc[s] \notin {"accept", "done"} /\ pc'[s] = "done") =>
                /\ escaped'[s] = FALSE
                /\ Len(closes'[s]) = 1
                /\ closes'[s][1].code = 1000]_vars

\* a window was complete, the send of its result raised, and so did the close
C9_Witness ==
    \E s \in Sessions :
        /\ pc[s] = "done"
        /\ Len(windows[s]) = 1
        /\ sent[s] = <<>>
        /\ closes[s] = <<CloseCall(TRUE)>>

InLoop(p) == p \in {"receive", "send_detected", "send_error", "send_stopped"}

\* C10: a session that has received no stop command and whose peer has not
\* gone is in its loop (after whatever chunks, other texts and failed
\* analyses) unless it never entered it, and a step leaves the loop only
\* after a stop command or when the peer has gone.
C10_LoopExits ==
    /\ [](\A s \in Sessions :
            (~StopSeen(s) /\ ~PeerGone(s)) =>
                \/ pc[s] \in {"accept", "receive", "send_detected", "send_error"}
                \/ pc[s] = "done" /\ received[s] = <<>> /\ closes[s] = <<>>)
    /\ [][\A s \in Sessions :
            (InLoop(pc[s]) /\ ~InLoop(pc'[s])) =>
                /\ pc'[s] \in {"close", "done"}
                /\ (pc[s] = "send_stopped" /\ StopSeen(s)) \/ PeerGone(s)]_vars

\* a session still receiving after a failed analysis and a text that is not
\* a stop command
C10_Witness ==
    \E s \in Sessions :
        /\ pc[s] = "receive"
        /\ ~PeerGone(s)
        /\ Len(windows[s]) = 1
        /\ sent[s] = <<ErrorMsg>>
        /\ Last(received[s]) = TextMsg(Text(<<"g", "o">>))

\* the signed 16-bit integer whose little-endian bytes are lo, hi
LittleEndianSigned(lo, hi) == ((lo + 256 * hi + 32768) % 65536) - 32768

\* the frame a returned call gave, as a sequence of int16 values over divisor:
\* it has len/2 samples, sample i is the little-endian signed 16-bit integer
\* at bytes 2i..2i+1 (counted from 0) over 32768, and lies in [-1.0, 1.0)
FrameIsDecoded(call) ==
    /\ ~call.result.raised
    /\ call.result.value.divisor = 32768
    /\ call.result.value.size * 2 = Len(call.arg)
    /\ LET samples == Expand(call.result.value.audio)
       IN  /\ Len(samples) * 2 = Len(call.arg)
           /\ \A i \in 1..Len(samples) :
                 /\ samples[i] = LittleEndianSigned(call.arg[2 * i - 1], call.arg[2 * i])
                 /\ -32768 <= samples[i] /\ samples[i] < 32768

\* C11 (as claimed): with channels=1, for every byte string of even length
\* decode_pcm returns len/2 samples, sample i being the little-endian signed
\* 16-bit integer at bytes 2i..2i+1 divided by 32768, in [-1.0, 1.0).
C11_DecodeEvenLength ==
    (decode_call.state = "returned" /\ decode_call.channels = 1
        /\ Len(decode_call.arg) % 2 = 0) => FrameIsDecoded(decode_call)

\* C11 (amended): the same for every non-empty byte string of even length.
C11_DecodeNonEmptyEven ==
    (decode_call.state = "returned" /\ decode_call.channels = 1
        /\ Len(decode_call.arg) % 2 = 0 /\ Len(decode_call.arg) > 0)
        => FrameIsDecoded(decode_call)

\* the bytes 00 80 ff 7f were decoded: samples -32768 and 32767 over 32768
C11_Witness ==
    /\ decode_call.state = "returned"
    /\ decode_call.channels = 1
    /\ decode_call.arg = <<0, 128, 255, 127>>
    /\ ~decode_call.result.raised
    /\ Expand(decode_call.result.value.audio) = <<-32768, 32767>>

\* C12: decode_pcm raises and returns no frame on an empty byte string and on
\* one whose length is not a multiple of 2 * channels (of 2 for channels=1),
\* and whatever it does the caller's buffer is as it was before the call.
C12_DecodeErrors ==
    decode_call.state = "returned" =>
        /\ decode_call.pcm = decode_call.arg
        /\ ( \/ Len(decode_call.arg) = 0
             \/ Len(decode_call.arg) % (2 * decode_call.channels) # 0 ) =>
                /\ decode_call.result.raised
                /\ "value" \notin DOMAIN decode_call.result

\* two bytes were given for two channels: one sample, no whole frame
C12_Witness ==
    /\ decode_call.state = "returned"
    /\ decode_call.channels = 2
    /\ Len(decode_call.arg) = 2
    /\ decode_call.result.raised
    /\ decode_call.pcm = decode_call.arg

\* the request carries the pre-shared key in its x-api-key header
KeyGiven == request.headers.present /\ request.headers.value = "your-secret-key"

\* C13 (as claimed): a request whose x-api-key header is missing or differs
\* from the pre-shared key is answered with the unauthorized status (403,
\* detail "Unauthorized") and the handler body never runs: nothing is read
\* or decoded and no estimator is called.
C13_RejectedBeforeBody ==
    (request.state # "none" /\ ~KeyGiven) =>
        /\ request.calls = <<>>
        /\ ~request.escaped
        /\ request.state = "responded" =>
              request.responses = <<[status |-> 403, body |-> [detail |-> "Unauthorized"]]>>

\* C14 (as claimed): an authorized request whose clip sf.read decodes and on
\* which both estimators return gets the one response, of status 200,
\* {"bpm": "<d.ddd>", "key": (tonic, scale, strength), "status": "Detected"}.
C14_SuccessResponse ==
    (/\ request.state = "responded"
     /\ KeyGiven
     /\ ~request.form.raised
     /\ HasUpload(request.form)
     /\ ~request.file_read.raised
     /\ ~request.sf_read.raised
     /\ request.estimators = [tempo |-> TempoReturned, key |-> KeyReturned]) =>
        /\ Len(request.responses) = 1
        /\ request.responses[1].status = 200
        /\ request.responses[1].body =
              [bpm    |-> PyStr(FormatFixed(TempoReturned.value[1], 3)),
               key    |-> find_keysig(KeyReturned).value,
               status |-> "Detected"]

\* C15 (as claimed): whatever raises while an authorized request is read,
\* decoded or analysed, the request gets exactly one response, of status 500
\* with a body {"error": <message>} and nothing else, and no exception
\* leaves the handler.
C15_ErrorsRecovered ==
    (request.state # "none" /\ KeyGiven) =>
        /\ ~request.escaped
        /\ Len(request.responses) <= 1
        /\ request.state = "responded" =>
              /\ Len(request.responses) = 1
              /\ request.responses[1].status \in {200, 500}
              /\ ( \/ request.form.raised
                   \/ request.file_read.raised
                   \/ request.sf_read.raised
                   \/ request.estimators.tempo.raised
                   \/ request.estimators.key.raised
                   \/ request.responses[1].status # 200 ) =>
                    /\ request.responses[1].status = 500
                    /\ DOMAIN request.responses[1].body = {"error"}

\* the windows a session cuts out of the messages msgs when every byte
\* behind a window is dropped: a window is the first TARGET_SIZE bytes of
\* the chunks that came after the chunk that completed the window before
RECURSIVE WindowsOf(_, _)
WindowsOf(msgs, since) ==
    IF msgs = <<>> THEN <<>>
    ELSE IF "bytes" \notin DOMAIN Head(msgs) THEN WindowsOf(Tail(msgs), since)
    ELSE LET b == Norm(since \o Head(msgs).bytes)
         IN  IF BLen(b) >= 441000
             THEN <<BTake(b, 441000)>> \o WindowsOf(Tail(msgs), <<>>)
             ELSE WindowsOf(Tail(msgs), b)

\* C16: when a chunk takes the buffer beyond the target only the first
\* target bytes are analysed; once the result (Detected or Error) is sent
\* the whole buffer is empty, and every window is made only of bytes of the
\* messages received after the one that completed the window before it.
C16_OverflowDiscarded ==
    /\ [](\A s \in Sessions :
            /\ windows[s] = WindowsOf(received[s], <<>>)
            /\ pc[s] \in {"send_detected", "send_error"} =>
                  Last(windows[s]) = BTake(audio_buffer[s], 441000))
    /\ [][\A s \in Sessions :
            (pc[s] \in {"send_detected", "send_error"} /\ pc'[s] = "receive") =>
                audio_buffer'[s] = <<>>]_vars

\* a chunk one byte longer than a window was analysed, and the window after
\* it is made of the two half-window chunks that came later, without that byte
C16_Witness ==
    \E s \in Sessions :
        /\ Len(received[s]) = 3
        /\ \A i \in 1..3 : "bytes" \in DOMAIN received[s][i]
        /\ BLen(received[s][1].bytes) = 441001
        /\ Len(windows[s]) = 2
        /\ windows[s][2] = Norm(received[s][2].bytes \o received[s][3].bytes)
        /\ pc[s] = "receive"
        /\ audio_buffer[s] = <<>>

\* the size of the last binary chunk among msgs, 0 if there is none
RECURSIVE LastChunkLen(_)
LastChunkLen(msgs) ==
    IF msgs = <<>> THEN 0
    ELSE IF "bytes" \in DOMAIN Last(msgs) THEN BLen(Last(msgs).bytes)
    ELSE LastChunkLen(SubSeq(msgs, 1, Len(msgs) - 1))

\* C17: whenever a session waits for its next message its buffer is shorter
\* than the target, and it is empty right after a window was processed; the
\* buffer never holds more than target - 1 bytes plus the chunk being handled.
C17_BufferBounded ==
    /\ [](\A s \in Sessions :
            /\ pc[s] = "receive" => BLen(audio_buffer[s]) < 441000
            /\ BLen(audio_buffer[s]) <= (441000 - 1) + LastChunkLen(received[s]))
    /\ [][\A s \in Sessions :
            (pc[s] # "receive" /\ pc'[s] = "receive" /\ windows[s] # <<>>
                /\ Len(Results(sent'[s])) > Len(Results(sent[s]))) =>
                BLen(audio_buffer'[s]) = 0]_vars

\* a session waits with half a window in its buffer, after a chunk that took
\* the buffer to a window and a half plus one byte was handled
C17_Witness ==
    \E s \in Sessions :
        /\ pc[s] = "receive"
        /\ Len(received[s]) = 3
        /\ \A i \in 1..3 : "bytes" \in DOMAIN received[s][i]
        /\ BLen(received[s][1].bytes) + BLen(received[s][2].bytes) > 441000 + 1
        /\ Len(windows[s]) = 1
        /\ BLen(audio_buffer[s]) = BLen(received[s][3].bytes)
        /\ BLen(audio_buffer[s]) > 0

\* C18: from the message that completes a window until the result of that
\* window has been sent the session receives nothing: while a result is to
\* be sent the last message received is the chunk that completed the window
\* under analysis, no step receives a message or starts another analysis,
\* and an analysis starts only from the wait for a message.
C18_AnalysisSerialized ==
    /\ [](\A s \in Sessions :
            pc[s] \in {"send_detected", "send_error"} =>
                /\ received[s] # <<>>
                /\ "bytes" \in DOMAIN Last(received[s])
                /\ Len(windows[s]) =
                      Len(WindowsOf(SubSeq(received[s], 1, Len(received[s]) - 1), <<>>)) + 1)
    /\ [][\A s \in Sessions :
            /\ pc[s] \in {"send_detected", "send_error"} =>
                  /\ received'[s] = received[s]
                  /\ windows'[s] = windows[s]
                  /\ oracles'[s] = oracles[s]
            /\ windows'[s] # windows[s] =>
                  /\ pc[s] = "receive"
                  /\ Len(windows'[s]) = Len(windows[s]) + 1]_vars

\* the result of a window is still to be sent while the next message of the
\* client waits to be received
C18_Witness ==
    \E s \in Sessions :
        /\ pc[s] = "send_error"
        /\ Len(windows[s]) = 1
        /\ inbox[s] # <<>>
        /\ "bytes" \in DOMAIN Head(inbox[s])

\* C19: once the peer of a session has disconnected (so that receive, or a
\* send, raises), the session eventually leaves its loop, calls close and
\* is over; it does not wait or go round forever.
C19_DisconnectTerminates ==
    \A s \in Sessions :
        (PeerGone(s) /\ InLoop(pc[s])) ~> (pc[s] = "done" /\ Len(closes[s]) = 1)

\* a session whose peer disconnected while a result was to be sent is over
C19_Witness ==
    \E s \in Sessions :
        /\ client_state[s] = "DISCONNECTED"
        /\ Len(windows[s]) = 1
        /\ pc[s] = "done"
        /\ Len(closes[s]) = 1

\* C20 (as claimed): when a window was decoded and both estimators returned,
\* the message built for it is a Detected message whose bpm is the raw
\* numeric tempo (the float detect_BPM gave, not a formatted string) and whose strength is
\* the confidence as a percentage with one decimal ("82.5%").
C20_DetectedFormat ==
    \A s \in Sessions :
        (/\ pc[s] \in {"send_detected", "send_error"}
         /\ ~PeerGone(s)
         /\ Last(oracles[s]) = [tempo |-> TempoReturned, key |-> KeyReturned]) =>
            /\ pending[s].status = "Detected"
            /\ pending[s].bpm = PyFloat(TempoReturned.value[1])
            /\ pending[s].strength = <<"8", "2", ".", "5", "%">>

\* C21: whatever the chunks and whatever the estimators do, a completed
\* window leads to the send of the Error result and never to a Detected
\* message: the strength find_keysig returns is a str, the format of
\* line 92 raises on it, and the except clause sends the Error result.
C21_AlwaysError ==
    /\ [](\A s \in Sessions :
            /\ pc[s] # "send_detected"
            /\ pending[s].status # "Detected"
            /\ \A i \in 1..Len(sent[s]) : sent[s][i].status # "Detected"
            /\ Results(sent[s]) = [i \in 1..Len(Results(sent[s])) |-> ErrorMsg]
            /\ \A i \in 1..Len(windows[s]) :
                  /\ Analyze(windows[s][i], oracles[s][i]) = ToSendError
                  /\ ~oracles[s][i].key.raised =>
                        /\ find_keysig(oracles[s][i].key).value[3].t = "str"
                        /\ FormatStrength(find_keysig(oracles[s][i].key).value[3]).raised)
    /\ [][\A s \in Sessions :
            Len(windows'[s]) > Len(windows[s]) =>
                (pc'[s] = "send_error" /\ pending'[s] = ErrorMsg)]_vars

\* two windows on which both estimators returned have each got the Error
\* result, the peer still being there
C21_Witness ==
    \E s \in Sessions :
        /\ ~PeerGone(s)
        /\ Len(windows[s]) = 2
        /\ \A i \in 1..2 : oracles[s][i] = [tempo |-> TempoReturned, key |-> KeyReturned]
        /\ sent[s] = <<ErrorMsg, ErrorMsg>>

\* a message without bytes that is not a stop command: a text whose
\* trimmed, lower-cased content is not "stop", or a message with neither key
Ignored(m) ==
    /\ "bytes" \notin DOMAIN m
    /\ ~StopCommand(m)

\* C22 (as claimed): the step that receives a text that is not a stop
\* command, or a message with neither a bytes nor a text key, leaves the
\* buffer as it was (content and length), sends nothing and starts no
\* analysis, and the session is at the receive of its loop afterwards.
C22_OtherMessagesIgnored ==
    [][\A s \in Sessions :
         (received'[s] # received[s] /\ Ignored(Last(received'[s]))) =>
             /\ audio_buffer'[s] = audio_buffer[s]
             /\ BLen(audio_buffer'[s]) = BLen(audio_buffer[s])
             /\ sent'[s] = sent[s]
             /\ pending'[s] = NoMsg
             /\ windows'[s] = windows[s]
             /\ closes'[s] = closes[s]
             /\ pc[s] = "receive" /\ pc'[s] = "receive"]_vars

\* C22 (amended): the step that receives a text that is not a stop command,
\* or a message with neither key, leaves the buffer as it was, sends nothing
\* and starts no analysis; after the text the session is at the receive of
\* its loop, after a message with neither key (the disconnect message) it
\* has left the loop for the close.
C22_OtherMessagesNoEffect ==
    [][\A s \in Sessions :
         (received'[s] # received[s] /\ Ignored(Last(received'[s]))) =>
             /\ audio_buffer'[s] = audio_buffer[s]
             /\ BLen(audio_buffer'[s]) = BLen(audio_buffer[s])
             /\ sent'[s] = sent[s]
             /\ pending'[s] = NoMsg
             /\ windows'[s] = windows[s]
             /\ closes'[s] = closes[s]
             /\ pc[s] = "receive"
             /\ pc'[s] = IF "text" \in DOMAIN Last(received'[s]) THEN "receive" ELSE "close"]_vars

\* half a window is buffered, the text "s top" and then the disconnect
\* message have been received: the buffer is as it was, nothing was sent and
\* the session is about to close
C22_Witness ==
    \E s \in Sessions :
        /\ Len(received[s]) = 3
        /\ "bytes" \in DOMAIN received[s][1]
        /\ received[s][2] = TextMsg(Text(<<"s", " ", "t", "o", "p">>))
        /\ received[s][3] = DisconnectMsg
        /\ audio_buffer[s] = received[s][1].bytes
        /\ BLen(audio_buffer[s]) > 0
        /\ sent[s] = <<>>
        /\ closes[s] = <<>>
        /\ pc[s] = "close"

====
